---- MODULE Spec2Model ----
(***************************************************************************)
(* Agent orchestration core of the kanban/PRD manager.                     *)
(*                                                                         *)
(*   backend/src/lib/orchestrator.ts  queue, current job, continuation     *)
(*                                    loop, resume / kill                  *)
(*   backend/src/lib/worktree.ts      one git worktree per ticket          *)
(*   backend/src/lib/terminal.ts      interactive terminal sessions        *)
(*   backend/src/routes/agents.ts     start / resume / kill, worktree      *)
(*                                    removal                              *)
(*   backend/src/routes/tickets.ts    deletion of a ticket, messages       *)
(*                                    posted to a ticket by any sender,    *)
(*                                    PATCH and move of a ticket's column  *)
(*   backend/src/routes/chat.ts       chat message of a person, relayed    *)
(*                                    to the ticket's terminal             *)
(*                                                                         *)
(* Specifications.  Spec: the orchestrator with resume.  SpecKill: the     *)
(* orchestrator with kill.  SpecWorktree: the queue and the jobs with the  *)
(* worktree removal route.  SpecQueue: the queue and the jobs, with room   *)
(* for one more job.  SpecQueueFair: SpecQueue where the orchestrator's    *)
(* own steps are fair and git returns.  SpecRoutes: the orchestrator with  *)
(* the replies of the resume and kill routes.  SpecTerm: the terminal      *)
(* sessions.  SpecRelay: the terminal sessions with the relay loops of     *)
(* both streams of a process and the chat route.  SpecExchange: the jobs   *)
(* when a worker's output arrives in pieces, on either stream.             *)
(* SpecDrain: the queue while tickets are deleted, any number of times,    *)
(* and messages are posted to a ticket, with fair steps.                   *)
(* SpecLoop: the continuation loop with errored iterations while the       *)
(* ticket's column is written by the ticket routes, with fair steps of the *)
(* orchestrator and workers that exit; SpecLoopGit: SpecLoop where git     *)
(* returns.                                                                *)
(*                                                                         *)
(* Scheduling.  The backend is one JavaScript thread: a handler runs until *)
(* it awaits something the event loop has to deliver.  The record store is *)
(* drizzle over bun:sqlite (lib/db.ts), whose statements execute           *)
(* synchronously, so an `await db...` only defers to the microtask queue   *)
(* and no other request, timer or stream event can run in between; the     *)
(* same holds for the `await import("./schema")` of getPRDContent, a       *)
(* module that is loaded when the orchestrator is.  The points where other *)
(* handlers do interleave are the ones that wait for the operating system: *)
(* every git command (create(): fetch, worktree add, worktree lock, log;   *)
(* remove(): worktree unlock, worktree remove, branch -d/-D;               *)
(* completeAgent: worktree unlock), the end of a worker's stdout, the end  *)
(* of its stderr, its exit, and the one-second delay between iterations.   *)
(*                                                                         *)
(* Git commands.  simple-git runs a command as a child process.  The       *)
(* handler that calls it goes on only when the event loop delivers the     *)
(* completion; the process changes the repository before that, while other *)
(* handlers run, and what those handlers look at (existsSync in create(),  *)
(* the cwd of Bun.spawn, git commands of their own) is the repository as   *)
(* it is at the time they look.  A command therefore takes three points:   *)
(* it is called, by the step of the handler that reaches it (field git of  *)
(* the invocation is ""); its process runs, a step of its own (LoopGit,    *)
(* KillGit, RemoveGit) that changes `worktrees` or fails and changes       *)
(* nothing; and its completion is delivered (CreateStep, UnlockDone,       *)
(* FailStep, KillStep, RemoveStep), where the handler goes on to its next  *)
(* await.  The effect of one command on the repository is one step.  A     *)
(* command fails when the repository is not in the state it needs, or for  *)
(* a reason of its own (input ok = FALSE: no network, no permission, a     *)
(* lock file of another git process), forced removals included.  No        *)
(* command has a timeout: whether its process ever ends is up to git, and  *)
(* only the specifications that say so assume it.                          *)
(***************************************************************************)
EXTENDS Bags, FiniteSets, Integers, Naturals, Sequences, TLC

VARIABLES
    queue,          \* Orchestrator.queue
    currentJob,     \* Orchestrator.currentJob (NoJob for null)
    isProcessing,   \* Orchestrator.isProcessing
    loops,          \* processQueue/startAgent invocations suspended at an await
    kills,          \* killAgent invocations suspended in failAgent's worktree removal
    removals,       \* DELETE /agents/worktrees handlers suspended at a git command
    agents,         \* table agents: agentId -> row
    column,         \* table tickets: columnId of each ticket
    messages,       \* table messages, per ticket, in insertion order
    events,         \* bag of agent.* events handed to broadcast()
    worktrees,      \* git/worktree state per ticket
    procs,          \* worker processes spawned by runAgentLoop
    jobLog,         \* history per agentId: what was done to the job
    skipped,        \* history: queued tickets for which an enqueue was skipped
    errorReply,     \* the error reply of the route that was served last
    deleted,        \* table tickets: ids whose row was deleted
    sessions,       \* terminal.ts: the sessions Map, ticketId -> TerminalSession
    tprocs,         \* interactive worker processes spawned by startTerminalSession
    sockets         \* terminal websockets: state, ticket, data received

orchVars == <<queue, currentJob, isProcessing, loops, kills, removals, agents,
              column, messages, events, worktrees, procs, jobLog, skipped,
              errorReply, deleted>>

termVars == <<sessions, tprocs, sockets>>

vars == <<orchVars, termVars>>

----------------------------------------------------------------------------
(* Bounds of the model *)

\* tickets known to the record store
NumTickets == 2
\* jobs (agent rows) that may be created in a run
MaxJobs == 2
\* configured OrchestratorConfig.maxIterations of the run
maxIterations == 2
\* output chunks a worker writes in one exchange
MaxOutLen == 2
\* killAgent calls that may be suspended in cleanup at the same time
MaxPendingKills == 1

\* DELETE /agents/worktrees requests waiting for git at the same time
MaxPendingRemovals == 1

\* messages posted to the tickets by people
MaxPosts == 1

\* interactive worker processes that may be spawned in a run
MaxTermProcs == 3
\* output chunks read from one interactive worker process
MaxChunks == 1
\* terminal websocket connections of a run
NumSockets == 1
\* TerminalSession.maxBufferLines of the run
maxBufferLines == 3

Tickets == 1..NumTickets

----------------------------------------------------------------------------
(* Worker output, as a sequence of chunks; the text of a chunk is a        *)
(* sequence of pieces, and a sentinel is two pieces long so that it can    *)
(* arrive in one chunk or in two                                           *)

TASK_COMPLETE == "TASK_COMPLETE"
NEED_HUMAN_INPUT == "NEED_HUMAN_INPUT:"
WS == " "
NL == "\n"
Chunks == {TASK_COMPLETE, NEED_HUMAN_INPUT, WS, "q"}

\* chunks of a worker that writes nothing but sentinels
Sentinels == {TASK_COMPLETE, NEED_HUMAN_INPUT}

\* chunks of a worker's error output
ErrChunks == {TASK_COMPLETE, "q"}

\* a line of the worker's stream that carries the id of its conversation
SESSION_ID == "session_id:s1"

\* what streamOutput puts between the output and the error output
STDERR == "\n[STDERR]\n"

\* chunks of a worker whose sentinels arrive in halves
HalfChunks == {"TASK_", "COMPLETE", "NEED_HUMAN_", "INPUT:", SESSION_ID, "q"}

Responses == {"r"}

\* the text of one chunk
Pieces(chunk) ==
    IF chunk = TASK_COMPLETE THEN <<"TASK_", "COMPLETE">>
    ELSE IF chunk = NEED_HUMAN_INPUT THEN <<"NEED_HUMAN_", "INPUT:">>
    ELSE IF chunk = SESSION_ID THEN <<"session_id:", "s1">>
    ELSE IF chunk = STDERR THEN <<NL, "[STDERR]", NL>>
    ELSE <<chunk>>

\* fullOutput += chunk, for all the chunks read
RECURSIVE Text(_)
Text(output) ==
    IF output = <<>> THEN <<>> ELSE Pieces(Head(output)) \o Text(Tail(output))

\* what streamOutput returns: the output, and after it the error output when
\* there is some
streamOutput(stdout, stderr) ==
    IF stderr = <<>> THEN stdout ELSE stdout \o <<STDERR>> \o stderr

\* positions of the text at which the pattern starts
Matches(text, pattern) ==
    {k \in 1..(Len(text) - Len(pattern) + 1) :
        SubSeq(text, k, k + Len(pattern) - 1) = pattern}

\* a search that looks at one chunk at a time
Includes_PerChunk(output, chunk) == \E i \in 1..Len(output) : output[i] = chunk

Includes(output, chunk) == Matches(Text(output), Pieces(chunk)) # {}

isTaskComplete(output) == Includes(output, TASK_COMPLETE)

needsHumanInput(output) == Includes(output, NEED_HUMAN_INPUT)

\* \s
IsSpace(piece) == piece \in {WS, NL}

RECURSIVE TrimStart(_)
TrimStart(s) ==
    IF s # <<>> /\ IsSpace(Head(s)) THEN TrimStart(Tail(s)) ELSE s

RECURSIVE TrimEnd(_)
TrimEnd(s) ==
    IF s # <<>> /\ IsSpace(s[Len(s)])
    THEN TrimEnd(SubSeq(s, 1, Len(s) - 1)) ELSE s

\* the characters of [a-zA-Z0-9-] a piece starts with
IdPrefix(piece) ==
    CASE piece \in {"COMPLETE", "s1", "q", "r"} -> piece
      [] piece = "TASK_" -> "TASK"
      [] piece = "NEED_HUMAN_" -> "NEED"
      [] piece = "INPUT:" -> "INPUT"
      [] piece = "session_id:" -> "session"
      [] OTHER -> ""

\* ([a-zA-Z0-9-]+) at the start of a text, as the pieces it is made of;
\* <<>> when the text does not start with such a character
RECURSIVE IdRun(_)
IdRun(text) ==
    IF text = <<>> \/ IdPrefix(Head(text)) = "" THEN <<>>
    ELSE IF IdPrefix(Head(text)) = Head(text)
    THEN <<Head(text)>> \o IdRun(Tail(text))
    ELSE <<IdPrefix(Head(text))>>

\* /session[_-]?id["\s:]+([a-zA-Z0-9-]+)/i, first match; <<>> for null
extractSessionId(output) ==
    LET text == Text(output)
        after(k) == IdRun(TrimStart(SubSeq(text, k + 1, Len(text))))
        found == {k \in Matches(text, <<"session_id:">>) : after(k) # <<>>}
    IN  IF found = {} THEN <<>>
        ELSE after(CHOOSE k \in found : \A j \in found : k <= j)

DefaultQuestion == <<"Agent needs human input">>

\* /NEED_HUMAN_INPUT:\s*(.+)/s, then trim(), then || default
extractQuestion(output) ==
    IF ~needsHumanInput(output) THEN DefaultQuestion
    ELSE LET text == Text(output)
             found == Matches(text, Pieces(NEED_HUMAN_INPUT))
             i == CHOOSE k \in found : \A j \in found : k <= j
             rest == TrimEnd(TrimStart(SubSeq(text, i + Len(Pieces(NEED_HUMAN_INPUT)),
                                            Len(text))))
         IN  IF rest = <<>> THEN DefaultQuestion ELSE rest

MaxIterationsQuestion == <<"Reached maximum iterations">>

----------------------------------------------------------------------------
(* State as one record, so that a handler's statements compose in order *)

NoJob == [ticketId |-> 0, agentId |-> 0, status |-> "idle", iterations |-> 0,
          process |-> 0, lastOutput |-> <<>>]

NoWorktree == [dir |-> FALSE, registered |-> FALSE, locked |-> FALSE,
               branch |-> FALSE]

NoReply == [op |-> "", ticketId |-> 0, status |-> 0]

NoHistory == [blocked |-> FALSE, question |-> <<>>, resumed |-> "no",
              killed |-> FALSE, killedAt |-> "", viaResume |-> FALSE,
              createError |-> "", sentinel |-> "", cleanup |-> ""]

State ==
    [queue |-> queue, currentJob |-> currentJob, isProcessing |-> isProcessing,
     loops |-> loops, kills |-> kills, removals |-> removals,
     agents |-> agents, column |-> column,
     messages |-> messages, events |-> events, worktrees |-> worktrees,
     procs |-> procs, jobLog |-> jobLog, skipped |-> skipped,
     errorReply |-> NoReply, deleted |-> deleted]

Commit(s) ==
    /\ queue' = s.queue
    /\ currentJob' = s.currentJob
    /\ isProcessing' = s.isProcessing
    /\ loops' = s.loops
    /\ kills' = s.kills
    /\ removals' = s.removals
    /\ agents' = s.agents
    /\ column' = s.column
    /\ messages' = s.messages
    /\ events' = s.events
    /\ worktrees' = s.worktrees
    /\ procs' = s.procs
    /\ jobLog' = s.jobLog
    /\ skipped' = {t \in s.skipped : \E i \in 1..Len(s.queue) : s.queue[i] = t}
    /\ errorReply' = s.errorReply
    /\ deleted' = s.deleted
    /\ UNCHANGED termVars

----------------------------------------------------------------------------
(* Record store and event sink helpers *)

updateAgentStatus(s, agentId, status) ==
    [s EXCEPT !.agents[agentId].status = status]

updateAgentStatusIter(s, agentId, status, iterations) ==
    [s EXCEPT !.agents[agentId].status = status,
              !.agents[agentId].iterationCount = iterations]

\* an update ... where id = ticketId: no row, no change
updateTicketColumn(s, ticketId, columnId) ==
    IF ticketId \in s.deleted THEN s
    ELSE [s EXCEPT !.column[ticketId] = columnId]

addMessage(s, ticketId, senderType, content) ==
    [s EXCEPT !.messages[ticketId] =
        Append(@, [senderType |-> senderType, content |-> content])]

addSystemMessage(s, ticketId, content) ==
    addMessage(s, ticketId, "system", content)

addAgentMessage(s, ticketId, content) ==
    addMessage(s, ticketId, "agent", content)

addHumanMessage(s, ticketId, content) ==
    addMessage(s, ticketId, "human", content)

broadcast(s, type, ticketId, agentId) ==
    [s EXCEPT !.events =
        @ (+) SetToBag({[type |-> type, ticketId |-> ticketId,
                         agentId |-> agentId]})]

\* broadcast of agent.progress, whose payload has the iteration
broadcastProgress(s, ticketId, agentId, iteration) ==
    [s EXCEPT !.events =
        @ (+) SetToBag({[type |-> "agent.progress", ticketId |-> ticketId,
                         agentId |-> agentId, iteration |-> iteration]})]

----------------------------------------------------------------------------
(* WorktreeManager *)

\* git worktree unlock: fails unless the worktree is registered and locked
unlockFails(s, ticketId) ==
    ~(s.worktrees[ticketId].registered /\ s.worktrees[ticketId].locked)

unlock(s, ticketId) == [s EXCEPT !.worktrees[ticketId].locked = FALSE]

\* git worktree lock: fails unless the worktree is registered and not locked
lockFails(s, ticketId) ==
    ~s.worktrees[ticketId].registered \/ s.worktrees[ticketId].locked

lock(s, ticketId) == [s EXCEPT !.worktrees[ticketId].locked = TRUE]

\* git worktree add -b ticket/T <path> origin/main: fails when the path is
\* there or registered, or when the branch exists
worktreeAddFails(s, ticketId) ==
    \/ s.worktrees[ticketId].dir
    \/ s.worktrees[ticketId].registered
    \/ s.worktrees[ticketId].branch

worktreeAdd(s, ticketId) ==
    [s EXCEPT !.worktrees[ticketId].dir = TRUE,
              !.worktrees[ticketId].registered = TRUE,
              !.worktrees[ticketId].branch = TRUE]

\* git worktree remove [--force] <path>: fails when git knows no such
\* worktree, when it is locked (one --force is not enough), and without
\* --force when the working tree has modified or untracked files (~clean).
\* A registered worktree whose directory is missing is removed without
\* complaint.
worktreeRemoveFails(s, ticketId, force, clean) ==
    \/ ~s.worktrees[ticketId].registered
    \/ s.worktrees[ticketId].locked
    \/ s.worktrees[ticketId].dir /\ ~force /\ ~clean

worktreeRemove(s, ticketId) ==
    [s EXCEPT !.worktrees[ticketId].dir = FALSE,
              !.worktrees[ticketId].registered = FALSE,
              !.worktrees[ticketId].locked = FALSE]

\* git branch -d / -D ticket/T: fails when there is no such branch, when a
\* registered worktree has it checked out, and with -d when the branch has
\* commits of its own (~merged)
deleteLocalBranchFails(s, ticketId, force, merged) ==
    \/ ~s.worktrees[ticketId].branch
    \/ s.worktrees[ticketId].registered
    \/ ~force /\ ~merged

deleteLocalBranch(s, ticketId) ==
    [s EXCEPT !.worktrees[ticketId].branch = FALSE]

\* getHead: git log in the new worktree; fails when the directory is gone
getHeadFails(s, ticketId) == ~s.worktrees[ticketId].dir

\* getHead: simpleGit(worktreePath) throws when it is called and the
\* directory is not there, before any git command
getHeadThrows(s, ticketId) == ~s.worktrees[ticketId].dir

\* the git commands of create(), in order
CreatePcs == {"fetch", "add", "lock", "head"}

\* the git commands of remove(), in order
RemovePcs == {"unlock", "remove", "branch"}

\* The child process of a git command runs, at some time between the call
\* and the delivery of its completion to the caller: what it does to the
\* repository, and whether it fails.  `ok`: nothing outside the repository is
\* in its way (origin is reached, the process starts, the files can be
\* written); `clean`: nothing that only a command without --force looks at
\* is in its way (a dirty working tree, an unmerged branch).
git(s, ticketId, command, force, ok, clean) ==
    LET fails ==
            \/ ~ok
            \/ CASE command = "fetch" -> FALSE
                 [] command = "add" -> worktreeAddFails(s, ticketId)
                 [] command = "lock" -> lockFails(s, ticketId)
                 [] command = "head" -> getHeadFails(s, ticketId)
                 [] command = "unlock" -> unlockFails(s, ticketId)
                 [] command = "remove" ->
                        worktreeRemoveFails(s, ticketId, force, clean)
                 [] command = "branch" ->
                        deleteLocalBranchFails(s, ticketId, force, clean)
        done ==
            CASE command = "add" -> worktreeAdd(s, ticketId)
              [] command = "lock" -> lock(s, ticketId)
              [] command = "unlock" -> unlock(s, ticketId)
              [] command = "remove" -> worktreeRemove(s, ticketId)
              [] command = "branch" -> deleteLocalBranch(s, ticketId)
              [] OTHER -> s
    IN  [s |-> IF fails THEN s ELSE done, failed |-> fails]

\* the commands whose errors the caller catches and ignores: unlock in
\* remove() and in completeAgent, deleteLocalBranch in remove()
Ignored == {"unlock", "branch"}

\* what the caller of a git command gets to see of it: "" while its process
\* has not run, then "failed" when it failed and the caller looks at that,
\* else "ok"
Outcome(command, failed) ==
    IF failed /\ command \notin Ignored THEN "failed" ELSE "ok"

\* remove(ticketId, force) when the completion of its git command `pc` is
\* delivered: the next command, "done" when remove() returns, "thrown" when
\* it throws (git worktree remove failed; the branch is then left alone).
\* The errors of unlock and of deleteLocalBranch are ignored.
remove(pc, failed) ==
    CASE pc = "unlock" -> "remove"
      [] pc = "remove" -> IF failed THEN "thrown" ELSE "branch"
      [] pc = "branch" -> "done"

\* create() that does not look for an existing directory
createThrowsExists_Never(s, ticketId) == FALSE

\* existsSync(worktreePath) at the head of create()
createThrowsExists(s, ticketId) == s.worktrees[ticketId].dir

\* the catch of create(): rmSync of the directory, nothing else
createCatch(s, ticketId) ==
    [s EXCEPT !.worktrees[ticketId].dir = FALSE]

\* create() when the completion of its git command `pc` is delivered.
\* Returns [s, pc, error]: pc is the next command, "done" when the worktree
\* is returned, "thrown" when create() throws, and then error is the command
\* that failed ("head" also when getHead throws as it is called, after the
\* lock).
create(s, ticketId, pc, failed) ==
    IF failed
    THEN [s |-> createCatch(s, ticketId), pc |-> "thrown", error |-> pc]
    ELSE IF pc = "lock" /\ getHeadThrows(s, ticketId)
    THEN [s |-> createCatch(s, ticketId), pc |-> "thrown", error |-> "head"]
    ELSE [s |-> s,
          pc |-> CASE pc = "fetch" -> "add"
                   [] pc = "add" -> "lock"
                   [] pc = "lock" -> "head"
                   [] pc = "head" -> "done",
          error |-> ""]

----------------------------------------------------------------------------
(* Orchestrator: job outcomes *)

\* a suspended invocation of startAgent: pc is the await it is at ("create",
\* "stream", "exited", "delay", "unlock", "fail"), step the command or
\* stream inside it (of CreatePcs, of {"stdout", "stderr"}, of RemovePcs) and
\* git the outcome of the git command it waits for
Loop(ticketId, agentId, pc, step) ==
    [ticketId |-> ticketId, agentId |-> agentId, pc |-> pc, step |-> step,
     git |-> "", iterations |-> 0, proc |-> 0, fullOutput |-> <<>>,
     stderr |-> <<>>, sessionId |-> <<>>]

\* failAgent that records no message for the ticket
failAgentBegin_NoMessage(s, ticketId, agentId, error) ==
    updateTicketColumn(updateAgentStatus(s, agentId, "FAILED"),
                       ticketId, "blocked")

\* failAgent up to `await worktreeManager.remove(ticketId, true)`
failAgentBegin(s, ticketId, agentId, error) ==
    addSystemMessage(
        updateTicketColumn(updateAgentStatus(s, agentId, "FAILED"),
                           ticketId, "blocked"),
        ticketId, <<"Agent failed:", error>>)

\* failAgent after remove(ticketId, true) returned or threw
failAgentEnd(s, ticketId, agentId) ==
    [broadcast(s, "agent.failed", ticketId, agentId) EXCEPT !.currentJob = NoJob]

\* completeAgent up to `await worktreeManager.unlock(ticketId)`
completeAgentBegin(s, ticketId, agentId) ==
    addSystemMessage(
        updateTicketColumn(updateAgentStatus(s, agentId, "COMPLETED"),
                           ticketId, "review"),
        ticketId, <<"Agent completed the task">>)

\* completeAgent after unlock(ticketId) returned or threw
completeAgentEnd(s, ticketId, agentId) ==
    [broadcast(s, "agent.completed", ticketId, agentId)
        EXCEPT !.currentJob = NoJob]

blockAgent(s, ticketId, agentId, question) ==
    LET s1 == addAgentMessage(
                  updateTicketColumn(updateAgentStatus(s, agentId, "BLOCKED"),
                                     ticketId, "blocked"),
                  ticketId, question)
        s2 == broadcast(s1, "agent.blocked", ticketId, agentId)
    IN  \* this.currentJob is left as it is
        [s2 EXCEPT !.jobLog[agentId].blocked = TRUE,
                   !.jobLog[agentId].question = question]

----------------------------------------------------------------------------
(* Orchestrator: startAgent, the continuation loop, processQueue *)

\* the --prompt argument of an exchange: the task, or the short continuation
promptOf(sessionId) == IF sessionId # <<>> THEN "continue" ELSE "task"

\* one pass of the while loop of runAgentLoop, from its condition to the
\* first await that leaves the thread; `l` is the suspended invocation
\* Returns [s, done]: done when runAgentLoop (and startAgent) returned.
runAgentLoop(s, l) ==
    IF l.iterations < maxIterations
    THEN LET it == l.iterations + 1
         IN  IF s.currentJob = NoJob
             THEN \* this.currentJob!.iterations throws; startAgent catches
                  [s |-> [failAgentBegin(s, l.ticketId, l.agentId, "TypeError")
                            EXCEPT !.loops = @ \cup
                                {[l EXCEPT !.pc = "fail", !.step = "unlock",
                                           !.iterations = it]}],
                   done |-> FALSE]
             ELSE LET s1 == broadcastProgress(
                                updateAgentStatusIter(
                                    [s EXCEPT !.currentJob.iterations = it],
                                    l.agentId, "RUNNING", it),
                                l.ticketId, l.agentId, it)
                  IN  IF ~s1.worktrees[l.ticketId].dir
                      THEN \* Bun.spawn throws on a missing cwd; caught in the loop
                           [s |-> [addSystemMessage(s1, l.ticketId,
                                                    <<"Error in iteration">>)
                                     EXCEPT !.loops = @ \cup
                                        {[l EXCEPT !.pc = "delay",
                                                   !.step = "",
                                                   !.iterations = it]}],
                            done |-> FALSE]
                      ELSE LET p == Len(s1.procs) + 1
                           IN  [s |-> [s1 EXCEPT
                                    !.procs = Append(@,
                                        [ticketId |-> l.ticketId,
                                         agentId |-> l.agentId,
                                         alive |-> TRUE,
                                         out |-> TRUE,
                                         err |-> TRUE,
                                         prompt |-> promptOf(l.sessionId),
                                         resume |-> l.sessionId]),
                                    !.currentJob.process = p,
                                    !.loops = @ \cup
                                        {[l EXCEPT !.pc = "stream",
                                                   !.step = "stdout",
                                                   !.iterations = it,
                                                   !.proc = p,
                                                   !.fullOutput = <<>>,
                                                   !.stderr = <<>>]}],
                                done |-> FALSE]
    ELSE [s |-> blockAgent(s, l.ticketId, l.agentId, MaxIterationsQuestion),
          done |-> TRUE]

\* startAgent from its start to the first git command of create()
startAgent(s, ticketId) ==
    LET agentId == Len(s.agents) + 1
        prev == {a \in 1..Len(s.agents) : s.agents[a].ticketId = ticketId}
        viaResume == /\ prev # {}
                     /\ LET a == CHOOSE x \in prev : \A y \in prev : y <= x
                        IN  s.jobLog[a].resumed = "blocked"
        s1 == [s EXCEPT
                !.agents = Append(@, [ticketId |-> ticketId,
                                      status |-> "STARTING",
                                      iterationCount |-> 0]),
                !.jobLog = Append(@, [NoHistory EXCEPT !.viaResume = viaResume]),
                !.currentJob = [ticketId |-> ticketId, agentId |-> agentId,
                                status |-> "starting", iterations |-> 0,
                                process |-> 0, lastOutput |-> <<>>]]
        s2 == broadcast(s1, "agent.started", ticketId, agentId)
    IN  IF createThrowsExists(s2, ticketId)
        THEN \* create() throws: worktree already exists
             [failAgentBegin(s2, ticketId, agentId, "Worktree already exists")
                EXCEPT !.loops = @ \cup
                    {Loop(ticketId, agentId, "fail", "unlock")},
                       !.jobLog[agentId].createError = "exists"]
        ELSE [s2 EXCEPT !.loops = @ \cup
                    {Loop(ticketId, agentId, "create", "fetch")}]

\* processQueue without the isProcessing flag
processQueueSkips_NoFlag(s) == s.queue = <<>>

\* the guard of processQueue
processQueueSkips(s) == s.isProcessing \/ s.queue = <<>>

\* startAgent finds no row for the ticket: throws `Ticket ... not found`
startAgentThrows(s, ticketId) == ticketId \in s.deleted

\* processQueue without the try around startAgent
processQueue_NoCatch(s) ==
    IF processQueueSkips(s) THEN s
    ELSE LET s1 == [s EXCEPT !.isProcessing = TRUE, !.queue = Tail(@)]
         IN  IF startAgentThrows(s1, Head(s.queue)) THEN s1
             ELSE startAgent(s1, Head(s.queue))

RECURSIVE processQueue(_), processQueueResume(_)
processQueue(s) ==
    IF processQueueSkips(s) THEN s
    ELSE LET s1 == [s EXCEPT !.isProcessing = TRUE, !.queue = Tail(@)]
             ticketId == Head(s.queue)
         IN  IF startAgentThrows(s1, ticketId)
             THEN \* the catch of processQueue, then on to the next ticket
                  processQueueResume(
                      addSystemMessage(
                          updateTicketColumn(s1, ticketId, "blocked"),
                          ticketId, <<"Agent failed to start">>))
             ELSE startAgent(s1, ticketId)

\* processQueue after `await this.startAgent(ticketId)` returned or threw
processQueueResume(s) ==
    LET s1 == [s EXCEPT !.isProcessing = FALSE]
    IN  IF s1.queue # <<>> THEN processQueue(s1) ELSE s1

\* DELETE /tickets/:id: the ticket's messages and its row are deleted
deleteTicket(s, id) ==
    [s EXCEPT !.messages[id] = <<>>, !.deleted = @ \cup {id}]

InQueue(q, ticketId) == \E i \in 1..Len(q) : q[i] = ticketId

\* enqueue that pushes whatever the queue holds
enqueueSkips_Never(s, ticketId) == FALSE

\* the guard of enqueue
enqueueSkips(s, ticketId) == InQueue(s.queue, ticketId)

\* enqueue that puts the ticket at the front of the queue
enqueue_Unshift(s, ticketId) ==
    IF enqueueSkips(s, ticketId)
    THEN [s EXCEPT !.skipped = @ \cup {ticketId}]
    ELSE processQueue([s EXCEPT !.queue = <<ticketId>> \o @])

enqueue(s, ticketId) ==
    IF enqueueSkips(s, ticketId)
    THEN [s EXCEPT !.skipped = @ \cup {ticketId}]
    ELSE processQueue([s EXCEPT !.queue = Append(@, ticketId)])

dequeue(s, ticketId) ==
    [s EXCEPT !.queue = SelectSeq(@, LAMBDA id : id # ticketId)]

\* the guard of resumeAgent
resumeAgentThrows(s, ticketId) ==
    s.currentJob = NoJob \/ s.currentJob.ticketId # ticketId

resumeAgent(s, ticketId, response) ==
    LET a == s.currentJob.agentId
        s1 == addHumanMessage(s, ticketId, <<response>>)
        s2 == [s1 EXCEPT !.currentJob = NoJob,
                         !.jobLog[a].resumed =
                            IF s.jobLog[a].blocked /\ ~s.jobLog[a].killed
                            THEN "blocked" ELSE "active"]
    IN  enqueue(s2, ticketId)

\* the guard of killAgent
killAgentThrows(s, ticketId) ==
    s.currentJob = NoJob \/ s.currentJob.ticketId # ticketId

\* killAgent up to the worktree removal inside failAgent
killAgent(s, ticketId) ==
    LET a == s.currentJob.agentId
        p == s.currentJob.process
        s1 == IF p # 0
              THEN [s EXCEPT !.procs[p].alive = FALSE,
                             !.procs[p].out = FALSE,
                             !.procs[p].err = FALSE]
              ELSE s
        s2 == failAgentBegin(s1, ticketId, a, "Agent killed by user")
        ls == {l \in s.loops : l.agentId = a}
        at == IF ls = {} THEN "returned" ELSE (CHOOSE l \in ls : TRUE).pc
    IN  [s2 EXCEPT !.kills = Append(@, [ticketId |-> ticketId, agentId |-> a,
                                        step |-> "unlock", git |-> ""]),
                   !.jobLog[a].killed = TRUE,
                   !.jobLog[a].killedAt =
                        IF s.jobLog[a].killed THEN @ ELSE at]

\* status.toUpperCase(), for the values of AgentStatus
toUpperCase(status) ==
    CASE status = "starting" -> "STARTING"
      [] status = "running" -> "RUNNING"
      [] status = "blocked" -> "BLOCKED"
      [] status = "completed" -> "COMPLETED"
      [] status = "failed" -> "FAILED"
      [] status = "idle" -> "IDLE"
      [] OTHER -> status

\* the snapshot returned by getStatus, the process handle left out
getStatus(s) ==
    [queue |-> s.queue,
     currentJob |->
        IF s.currentJob = NoJob THEN NoJob
        ELSE [s.currentJob EXCEPT !.process = 0]]

----------------------------------------------------------------------------
(* Routes of the orchestrator that report its errors (routes/agents.ts) *)

\* c.json({ error: String(error) }, 400)
replyError(s, op, ticketId) ==
    [s EXCEPT !.errorReply = [op |-> op, ticketId |-> ticketId, status |-> 400]]

\* POST /resume/:ticketId whose handler does not look at the current job
resumeRoute_NoGuard(s, ticketId, response) ==
    IF s.currentJob = NoJob THEN replyError(s, "resume", ticketId)
    ELSE resumeAgent(s, ticketId, response)

\* POST /resume/:ticketId with a response: resumeAgent, its error caught
resumeRoute(s, ticketId, response) ==
    IF resumeAgentThrows(s, ticketId) THEN replyError(s, "resume", ticketId)
    ELSE resumeAgent(s, ticketId, response)

\* POST /kill/:ticketId up to the first wait: killAgent, its error caught
killRoute(s, ticketId) ==
    IF killAgentThrows(s, ticketId) THEN replyError(s, "kill", ticketId)
    ELSE killAgent(s, ticketId)

\* POST /agents/start/:ticketId for a ticket that exists: the ticket goes to
\* the in-progress column, then orchestrator.enqueue
startRoute(s, ticketId) ==
    enqueue(updateTicketColumn(s, ticketId, "in-progress"), ticketId)

\* DELETE /agents/worktrees/:ticketId up to the first git command of remove()
removeRoute(s, ticketId, force) ==
    [s EXCEPT !.removals = Append(@, [ticketId |-> ticketId, force |-> force,
                                      step |-> "unlock", git |-> ""])]

\* body.content of a posted message
Posting == <<"m">>

\* body.senderType of a posted message; "" when the body has none
SenderTypes == {"", "agent", "system"}

\* POST /tickets/:id/messages: senderType || 'human'; the ticket is not
\* looked up
postMessage(s, id, content, senderType) ==
    [s EXCEPT !.messages[id] =
        Append(@, [senderType |-> IF senderType = "" THEN "human"
                                  ELSE senderType,
                   content |-> content])]

\* the number of posted messages in the store
Posted(msgs) ==
    Cardinality(UNION {{<<t, i>> : i \in {j \in 1..Len(msgs[t]) :
                            msgs[t][j].content = Posting}} :
                       t \in Tickets})

\* body.columnId of a move or a PATCH that has one
MoveColumns == {"done", "review"}

\* body.columnId of PATCH /tickets/:id when the body has none
Undefined == "undefined"

\* POST /tickets/:id/move: 404 without the ticket's row, else the column is
\* written
moveTicket(s, id, columnId) ==
    IF id \in s.deleted THEN s
    ELSE [s EXCEPT !.column[id] = columnId]

\* PATCH /tickets/:id: 404 without the ticket's row, else the fields the
\* body has are written
patchTicket(s, id, columnId) ==
    IF id \in s.deleted \/ columnId = Undefined THEN s
    ELSE [s EXCEPT !.column[id] = columnId]

----------------------------------------------------------------------------
(* Terminal sessions (terminal.ts); text is a sequence of characters *)

CR == "\r"

TermChunks == {<<"x">>, <<"x", NL, "y">>}

\* the notice of the exit handler: "\r\n...[Terminal session ended ...]...\r\n"
exitMessage == <<CR, NL, "[Terminal session ended]", CR, NL>>

\* String.prototype.split('\n')
RECURSIVE split(_)
split(data) ==
    IF \A i \in 1..Len(data) : data[i] # NL THEN <<data>>
    ELSE LET k == CHOOSE i \in 1..Len(data) :
                      data[i] = NL /\ \A j \in 1..(i - 1) : data[j] # NL
         IN  <<SubSeq(data, 1, k - 1)>> \o split(SubSeq(data, k + 1, Len(data)))

\* Array.prototype.join('')
RECURSIVE join(_)
join(lines) == IF lines = <<>> THEN <<>> ELSE Head(lines) \o join(Tail(lines))

TState == [sessions |-> sessions, tprocs |-> tprocs, sockets |-> sockets]

TCommit(s) ==
    /\ sessions' = s.sessions
    /\ tprocs' = s.tprocs
    /\ sockets' = s.sockets

NewSession == [process |-> 0, clients |-> {}, outputBuffer |-> <<>>,
               status |-> "stopped"]

getOrCreateTerminalSession(s, ticketId) ==
    IF ticketId \in DOMAIN s.sessions THEN s
    ELSE [s EXCEPT !.sessions =
            [t \in DOMAIN s.sessions \cup {ticketId} |->
                IF t = ticketId THEN NewSession ELSE s.sessions[t]]]

\* a trim that drops the newest entries
trimBuffer_KeepOldest(buffer) ==
    IF Len(buffer) > maxBufferLines THEN SubSeq(buffer, 1, maxBufferLines)
    ELSE buffer

\* the while loop of bufferOutput
RECURSIVE trimBuffer(_)
trimBuffer(buffer) ==
    IF Len(buffer) > maxBufferLines THEN trimBuffer(Tail(buffer)) ELSE buffer

bufferOutput(s, ticketId, data) ==
    [s EXCEPT !.sessions[ticketId].outputBuffer = trimBuffer(@ \o split(data))]

\* client.send(data) raises: the connection is gone and its close event has
\* not been handled yet
sendThrows(s, c) == s.sockets[c].state = "lost"

send(s, c, data) == [s EXCEPT !.sockets[c].received = Append(@, data)]

\* the for loop of broadcastToSession over `clients`, with its catch
RECURSIVE sendAll(_, _, _, _)
sendAll(s, ticketId, clients, data) ==
    IF clients = {} THEN s
    ELSE LET c == CHOOSE x \in clients : TRUE
             s1 == IF sendThrows(s, c)
                   THEN [s EXCEPT !.sessions[ticketId].clients = @ \ {c}]
                   ELSE send(s, c, data)
         IN  sendAll(s1, ticketId, clients \ {c}, data)

broadcastToSession(s, ticketId, data) ==
    IF ticketId \in DOMAIN s.sessions
    THEN sendAll(s, ticketId, s.sessions[ticketId].clients, data)
    ELSE s

\* the guard of startTerminalSession, on the session it got or created
alreadyRunning(session) == session.process # 0 /\ session.status = "running"

startTerminalSession(s, ticketId) ==
    LET s1 == getOrCreateTerminalSession(s, ticketId)
    IN  IF alreadyRunning(s1.sessions[ticketId]) THEN s1
        ELSE LET p == Len(s1.tprocs) + 1
             IN  [s1 EXCEPT
                    !.tprocs = Append(@, [ticketId |-> ticketId, alive |-> TRUE,
                                          eof |-> FALSE, exited |-> FALSE,
                                          reads |-> 0, errReads |-> 0]),
                    !.sessions[ticketId].process = p,
                    !.sessions[ticketId].status = "running"]

\* POST /chat/:ticketId: if (!session?.process) startTerminalSession
chatTerminal(s, ticketId) ==
    IF ticketId \in DOMAIN s.sessions /\ s.sessions[ticketId].process # 0
    THEN s
    ELSE startTerminalSession(s, ticketId)

\* addClientToSession that sends no history
addClientToSession_NoReplay(s, ticketId, c) ==
    LET s1 == getOrCreateTerminalSession(s, ticketId)
    IN  [s1 EXCEPT !.sessions[ticketId].clients = @ \cup {c}]

addClientToSession(s, ticketId, c) ==
    LET s1 == getOrCreateTerminalSession(s, ticketId)
        s2 == [s1 EXCEPT !.sessions[ticketId].clients = @ \cup {c}]
        buffer == s2.sessions[ticketId].outputBuffer
    IN  \* an error of ws.send is logged and nothing else
        IF Len(buffer) > 0 /\ ~sendThrows(s2, c) THEN send(s2, c, join(buffer))
        ELSE s2

\* removeClientFromSession that stops the session with its observer
removeClientFromSession_Stops(s, ticketId, c) ==
    IF ticketId \in DOMAIN s.sessions
    THEN [s EXCEPT !.sessions[ticketId].clients = @ \ {c},
                   !.sessions[ticketId].process = 0,
                   !.sessions[ticketId].status = "stopped"]
    ELSE s

removeClientFromSession(s, ticketId, c) ==
    IF ticketId \in DOMAIN s.sessions
    THEN [s EXCEPT !.sessions[ticketId].clients = @ \ {c}]
    ELSE s

\* killTerminalSession that keeps the handle of the killed process
killTerminalSession_KeepsHandle(s, ticketId) ==
    IF ticketId \in DOMAIN s.sessions /\ s.sessions[ticketId].process # 0
    THEN [s EXCEPT !.tprocs[s.sessions[ticketId].process].alive = FALSE,
                   !.sessions[ticketId].status = "stopped"]
    ELSE s

killTerminalSession(s, ticketId) ==
    IF ticketId \in DOMAIN s.sessions /\ s.sessions[ticketId].process # 0
    THEN [s EXCEPT !.tprocs[s.sessions[ticketId].process].alive = FALSE,
                   !.sessions[ticketId].process = 0,
                   !.sessions[ticketId].status = "stopped"]
    ELSE s

\* an exit handler that tells the observers and leaves the buffer alone
exitHandler_NoBuffer(s, ticketId) ==
    broadcastToSession([s EXCEPT !.sessions[ticketId].process = 0,
                                 !.sessions[ticketId].status = "stopped"],
                       ticketId, exitMessage)

\* proc.exited.then(...) of the process p spawned for ticketId
exitHandler(s, ticketId) ==
    LET s1 == [s EXCEPT !.sessions[ticketId].process = 0,
                        !.sessions[ticketId].status = "stopped"]
    IN  broadcastToSession(bufferOutput(s1, ticketId, exitMessage),
                           ticketId, exitMessage)

----------------------------------------------------------------------------
(* Actions *)

Init ==
    /\ queue = <<>>
    /\ currentJob = NoJob
    /\ isProcessing = FALSE
    /\ loops = {}
    /\ kills = <<>>
    /\ removals = <<>>
    /\ agents = <<>>
    /\ column = [t \in Tickets |-> "in-progress"]
    /\ messages = [t \in Tickets |-> <<>>]
    /\ events = EmptyBag
    /\ worktrees = [t \in Tickets |-> NoWorktree]
    /\ procs = <<>>
    /\ jobLog = <<>>
    /\ skipped = {}
    /\ errorReply = NoReply
    /\ deleted = {}
    /\ sessions = <<>>
    /\ tprocs = <<>>
    /\ sockets = [c \in 1..NumSockets |->
                    [state |-> "new", ticketId |-> 0, received |-> <<>>]]

\* every push is followed by at most one startAgent, which takes a fresh agentId
RoomForJob == Len(agents) + Len(queue) < MaxJobs

\* POST /agents/start/:ticketId
Enqueue(t) ==
    /\ t \notin deleted
    /\ RoomForJob
    /\ Commit(startRoute(State, t))

Dequeue(t) ==
    /\ InQueue(queue, t)
    /\ Commit(dequeue(State, t))

\* POST /agents/resume/:ticketId -> orchestrator.resumeAgent
ResumeAgent(t, response) ==
    /\ RoomForJob
    /\ ~resumeAgentThrows(State, t)
    /\ Commit(resumeAgent(State, t, response))

\* POST /tickets/:id/messages
PostMessage(t, senderType) ==
    /\ Posted(messages) < MaxPosts
    /\ Commit(postMessage(State, t, Posting, senderType))

\* POST /tickets/:id/move
MoveTicket(t, columnId) == Commit(moveTicket(State, t, columnId))

\* PATCH /tickets/:id
PatchTicket(t, columnId) == Commit(patchTicket(State, t, columnId))

\* POST /agents/kill/:ticketId -> orchestrator.killAgent, until it waits for git
KillAgent(t) ==
    /\ Len(kills) < MaxPendingKills
    /\ ~killAgentThrows(State, t)
    /\ Commit(killAgent(State, t))

RemoveAt(seq, i) == SubSeq(seq, 1, i - 1) \o SubSeq(seq, i + 1, Len(seq))

\* the process of the git command that killAgent's failAgent waits for runs
KillGit(i, ok) ==
    /\ i \in 1..Len(kills)
    /\ kills[i].git = ""
    /\ LET k == kills[i]
           r == git(State, k.ticketId, k.step, TRUE, ok, TRUE)
       IN  Commit([r.s EXCEPT !.kills[i].git = Outcome(k.step, r.failed)])

\* the completion of a git command of the removal in failAgent, called by
\* killAgent, is delivered: the next command is called, or the rest of
\* failAgent runs and killAgent returns
KillStep(i) ==
    /\ i \in 1..Len(kills)
    /\ kills[i].git # ""
    /\ LET k == kills[i]
           pc == remove(k.step, k.git = "failed")
       IN  IF pc \in RemovePcs
           THEN Commit([State EXCEPT !.kills[i].step = pc,
                                     !.kills[i].git = ""])
           ELSE Commit(failAgentEnd(
                    [State EXCEPT !.kills = RemoveAt(@, i),
                                  !.jobLog[k.agentId].cleanup = pc],
                    k.ticketId, k.agentId))

\* the loop's state with invocation l taken out, to be put back where it suspends
Without(l) == [State EXCEPT !.loops = @ \ {l}]

Continue(r) == Commit(IF r.done THEN processQueueResume(r.s) ELSE r.s)

\* the invocation as it is when it goes on after a git command
Delivered(l) == [l EXCEPT !.git = ""]

\* the process of the git command that the invocation waits for runs: a
\* command of create(), the unlock of completeAgent, or a command of the
\* removal in failAgent
LoopGit(l, ok) ==
    /\ l \in loops /\ l.pc \in {"create", "unlock", "fail"}
    /\ l.git = ""
    /\ LET command == IF l.pc = "unlock" THEN "unlock" ELSE l.step
           r == git(Without(l), l.ticketId, command, TRUE, ok, TRUE)
       IN  Commit([r.s EXCEPT !.loops = @ \cup
                        {[l EXCEPT !.git = Outcome(command, r.failed)]}])

\* the completion of a git command of create() is delivered: the next
\* command is called, or create() throws and failAgent begins, or startAgent
\* goes on into runAgentLoop up to the first exchange
CreateStep(l) ==
    /\ l \in loops /\ l.pc = "create"
    /\ l.git # ""
    /\ LET r == create(Without(l), l.ticketId, l.step, l.git = "failed")
       IN  CASE r.pc = "done" ->
                    Continue(runAgentLoop(
                        addSystemMessage(r.s, l.ticketId, <<"Agent started">>),
                        Delivered(l)))
             [] r.pc = "thrown" ->
                    Commit([failAgentBegin(r.s, l.ticketId, l.agentId,
                                           "create failed")
                              EXCEPT !.loops = @ \cup
                                        {[Delivered(l) EXCEPT
                                            !.pc = "fail",
                                            !.step = "unlock"]},
                                     !.jobLog[l.agentId].createError = r.error])
             [] OTHER ->
                    Commit([r.s EXCEPT !.loops = @ \cup
                                        {[Delivered(l) EXCEPT !.step = r.pc]}])

\* DELETE /agents/worktrees/:ticketId[?force=true] -> worktreeManager.remove,
\* until it waits for git
RemoveWorktree(t, force) ==
    /\ Len(removals) < MaxPendingRemovals
    /\ Commit(removeRoute(State, t, force))

\* the process of the git command that the route's removal waits for runs
RemoveGit(i, ok, clean) ==
    /\ i \in 1..Len(removals)
    /\ removals[i].git = ""
    /\ LET k == removals[i]
           r == git(State, k.ticketId, k.step, k.force, ok, clean)
       IN  Commit([r.s EXCEPT !.removals[i].git = Outcome(k.step, r.failed)])

\* the completion of a git command of the route's removal is delivered: the
\* next command is called, or the route replies
RemoveStep(i) ==
    /\ i \in 1..Len(removals)
    /\ removals[i].git # ""
    /\ LET k == removals[i]
           pc == remove(k.step, k.git = "failed")
           rest == [State EXCEPT !.removals = RemoveAt(@, i)]
       IN  CASE pc = "done" -> Commit(rest)
             [] pc = "thrown" -> Commit(replyError(rest, "remove", k.ticketId))
             [] OTHER -> Commit([State EXCEPT !.removals[i].step = pc,
                                              !.removals[i].git = ""])

\* the worker writes a chunk to its stdout and streamOutput reads it
ProcOutput(l, chunk) ==
    /\ l \in loops /\ l.pc = "stream" /\ l.step = "stdout"
    /\ procs[l.proc].out
    /\ Len(l.fullOutput) + Len(l.stderr) < MaxOutLen
    /\ loops' = (loops \ {l}) \cup
                    {[l EXCEPT !.fullOutput = Append(@, chunk)]}
    /\ UNCHANGED <<queue, currentJob, isProcessing, kills, removals, agents,
                   column, messages, events, worktrees, procs, jobLog, skipped,
                   errorReply, deleted, termVars>>

\* the worker writes a chunk to its stderr, which is read as a whole once
\* stdout has ended
ProcErrOutput(l, chunk) ==
    /\ l \in loops /\ l.pc = "stream"
    /\ procs[l.proc].err
    /\ Len(l.fullOutput) + Len(l.stderr) < MaxOutLen
    /\ loops' = (loops \ {l}) \cup
                    {[l EXCEPT !.stderr = Append(@, chunk)]}
    /\ UNCHANGED <<queue, currentJob, isProcessing, kills, removals, agents,
                   column, messages, events, worktrees, procs, jobLog, skipped,
                   errorReply, deleted, termVars>>

\* the worker closes its stdout and goes on running
ProcCloseOut(p) ==
    /\ p \in 1..Len(procs)
    /\ procs[p].out
    /\ procs' = [procs EXCEPT ![p].out = FALSE]
    /\ UNCHANGED <<queue, currentJob, isProcessing, loops, kills, removals,
                   agents, column, messages, events, worktrees, jobLog, skipped,
                   errorReply, deleted, termVars>>

\* the worker closes its stderr and goes on running
ProcCloseErr(p) ==
    /\ p \in 1..Len(procs)
    /\ procs[p].err
    /\ procs' = [procs EXCEPT ![p].err = FALSE]
    /\ UNCHANGED <<queue, currentJob, isProcessing, loops, kills, removals,
                   agents, column, messages, events, worktrees, jobLog, skipped,
                   errorReply, deleted, termVars>>

\* the worker closes both its streams and goes on running
ProcClose(p) ==
    /\ p \in 1..Len(procs)
    /\ procs[p].alive /\ (procs[p].out \/ procs[p].err)
    /\ procs' = [procs EXCEPT ![p].out = FALSE, ![p].err = FALSE]
    /\ UNCHANGED <<queue, currentJob, isProcessing, loops, kills, removals,
                   agents, column, messages, events, worktrees, jobLog, skipped,
                   errorReply, deleted, termVars>>

\* the worker exits by itself; its streams end with it
ProcExit(p) ==
    /\ p \in 1..Len(procs)
    /\ procs[p].alive
    /\ procs' = [procs EXCEPT ![p].alive = FALSE, ![p].out = FALSE,
                              ![p].err = FALSE]
    /\ UNCHANGED <<queue, currentJob, isProcessing, loops, kills, removals,
                   agents, column, messages, events, worktrees, jobLog, skipped,
                   errorReply, deleted, termVars>>

\* stdout has ended: the reader loop of streamOutput is left and stderr is
\* awaited
StdoutDone(l) ==
    /\ l \in loops /\ l.pc = "stream" /\ l.step = "stdout"
    /\ ~procs[l.proc].out
    /\ loops' = (loops \ {l}) \cup {[l EXCEPT !.step = "stderr"]}
    /\ UNCHANGED <<queue, currentJob, isProcessing, kills, removals, agents,
                   column, messages, events, worktrees, procs, jobLog, skipped,
                   errorReply, deleted, termVars>>

\* stderr has ended: streamOutput returns, the loop looks at the output
StreamEnd(l) ==
    /\ l \in loops /\ l.pc = "stream" /\ l.step = "stderr"
    /\ ~procs[l.proc].err
    /\ LET output == streamOutput(l.fullOutput, l.stderr)
           s0 == [Without(l) EXCEPT !.jobLog[l.agentId].sentinel =
                    IF isTaskComplete(output) THEN "complete"
                    ELSE IF needsHumanInput(output) THEN "input" ELSE @]
           s == IF s0.currentJob = NoJob THEN s0
                ELSE [s0 EXCEPT !.currentJob.lastOutput = output]
       IN  IF s.currentJob = NoJob
           THEN \* this.currentJob!.lastOutput throws inside the try
                Commit([addSystemMessage(s, l.ticketId, <<"Error in iteration">>)
                          EXCEPT !.loops = @ \cup
                                    {[l EXCEPT !.pc = "delay", !.step = ""]}])
           ELSE IF isTaskComplete(output)
           THEN Commit([completeAgentBegin(s, l.ticketId, l.agentId)
                          EXCEPT !.loops = @ \cup
                                    {[l EXCEPT !.pc = "unlock", !.step = "", !.git = ""]}])
           ELSE IF needsHumanInput(output)
           THEN Commit(processQueueResume(
                    blockAgent(s, l.ticketId, l.agentId,
                               extractQuestion(output))))
           ELSE Commit([s EXCEPT !.loops = @ \cup
                    {[l EXCEPT !.pc = "exited", !.step = "",
                               !.sessionId =
                                    IF extractSessionId(output) # <<>>
                                    THEN extractSessionId(output) ELSE @]}])

\* proc.exited resolves: the delay between iterations starts
ExitedDone(l) ==
    /\ l \in loops /\ l.pc = "exited"
    /\ ~procs[l.proc].alive
    /\ loops' = (loops \ {l}) \cup {[l EXCEPT !.pc = "delay"]}
    /\ UNCHANGED <<queue, currentJob, isProcessing, kills, removals, agents,
                   column, messages, events, worktrees, procs, jobLog, skipped,
                   errorReply, deleted, termVars>>

\* the delay between iterations is over: next pass of the while loop
DelayDone(l) ==
    /\ l \in loops /\ l.pc = "delay"
    /\ Continue(runAgentLoop(Without(l), l))

\* the completion of completeAgent's unlock is delivered, an error ignored
UnlockDone(l) ==
    /\ l \in loops /\ l.pc = "unlock"
    /\ l.git # ""
    /\ Commit(processQueueResume(
            completeAgentEnd(Without(l), l.ticketId, l.agentId)))

\* the completion of a git command of the removal in failAgent, called from
\* startAgent's catch, is delivered: the next command is called, or the rest
\* of failAgent runs and startAgent returns
FailStep(l) ==
    /\ l \in loops /\ l.pc = "fail"
    /\ l.git # ""
    /\ LET pc == remove(l.step, l.git = "failed")
       IN  IF pc \in RemovePcs
           THEN Commit([State EXCEPT !.loops =
                            (@ \ {l}) \cup {[Delivered(l) EXCEPT !.step = pc]}])
           ELSE Commit(processQueueResume(
                    failAgentEnd(
                        [Without(l) EXCEPT !.jobLog[l.agentId].cleanup = pc],
                        l.ticketId, l.agentId)))

\* The orchestrator with resume: the queue, the jobs and their workers,
\* which write sentinels or nothing and may close their streams and go on
\* running, and the responses given to jobs; a git command may fail for a
\* reason of its own
Next ==
    \/ \E t \in Tickets : Enqueue(t)
    \/ \E t \in Tickets : Dequeue(t)
    \/ \E t \in Tickets, r \in Responses : ResumeAgent(t, r)
    \/ \E l \in loops, ok \in BOOLEAN : LoopGit(l, ok)
    \/ \E l \in loops : CreateStep(l)
    \/ \E l \in loops, c \in Sentinels : ProcOutput(l, c)
    \/ \E p \in 1..Len(procs) : ProcClose(p)
    \/ \E p \in 1..Len(procs) : ProcExit(p)
    \/ \E l \in loops : StdoutDone(l)
    \/ \E l \in loops : StreamEnd(l)
    \/ \E l \in loops : ExitedDone(l)
    \/ \E l \in loops : DelayDone(l)
    \/ \E l \in loops : UnlockDone(l)
    \/ \E l \in loops : FailStep(l)

Spec == Init /\ [][Next]_vars

\* The orchestrator with kill: the queue, the jobs and their workers, which
\* write the completion sentinel or nothing, and the kills, whose forced
\* removal runs its git commands while the killed job's loop and the drain go
\* on; a git command of the kill's removal may fail for a reason of its own,
\* one that a job waits for fails only when the repository is not in the
\* state it needs
KillNext ==
    \/ \E t \in Tickets : Enqueue(t)
    \/ \E t \in Tickets : KillAgent(t)
    \/ \E i \in 1..MaxPendingKills, ok \in BOOLEAN : KillGit(i, ok)
    \/ \E i \in 1..MaxPendingKills : KillStep(i)
    \/ \E l \in loops : LoopGit(l, TRUE)
    \/ \E l \in loops : CreateStep(l)
    \/ \E l \in loops : ProcOutput(l, TASK_COMPLETE)
    \/ \E p \in 1..Len(procs) : ProcExit(p)
    \/ \E l \in loops : StdoutDone(l)
    \/ \E l \in loops : StreamEnd(l)
    \/ \E l \in loops : ExitedDone(l)
    \/ \E l \in loops : DelayDone(l)
    \/ \E l \in loops : UnlockDone(l)
    \/ \E l \in loops : FailStep(l)

SpecKill == Init /\ [][KillNext]_vars

\* POST /agents/resume/:ticketId, accepted or rejected
ResumeRoute(t, response) ==
    /\ resumeAgentThrows(State, t) \/ RoomForJob
    /\ Commit(resumeRoute(State, t, response))

\* POST /agents/kill/:ticketId, accepted (until it waits for git) or rejected
KillRoute(t) ==
    /\ killAgentThrows(State, t) \/ Len(kills) < MaxPendingKills
    /\ Commit(killRoute(State, t))

\* The orchestrator with the replies of the resume and kill routes, called
\* for either ticket while jobs are started for the first: a git command of
\* a kill's removal may fail for a reason of its own, one that a job waits
\* for fails only when the repository is not in the state it needs, nothing
\* is taken out of the queue and a worker asks for input or writes nothing
RoutesNext ==
    \/ Enqueue(1)
    \/ \E t \in Tickets, r \in Responses : ResumeRoute(t, r)
    \/ \E t \in Tickets : KillRoute(t)
    \/ \E i \in 1..MaxPendingKills, ok \in BOOLEAN : KillGit(i, ok)
    \/ \E i \in 1..MaxPendingKills : KillStep(i)
    \/ \E l \in loops : LoopGit(l, TRUE)
    \/ \E l \in loops : CreateStep(l)
    \/ \E l \in loops : ProcOutput(l, NEED_HUMAN_INPUT)
    \/ \E p \in 1..Len(procs) : ProcExit(p)
    \/ \E l \in loops : StdoutDone(l)
    \/ \E l \in loops : StreamEnd(l)
    \/ \E l \in loops : ExitedDone(l)
    \/ \E l \in loops : DelayDone(l)
    \/ \E l \in loops : FailStep(l)

SpecRoutes == Init /\ [][RoutesNext]_vars

\* The jobs and their exchanges with workers whose output carries the id of
\* the conversation and whose sentinels arrive in halves, on stdout or on
\* stderr, when git succeeds
ExchangeNext ==
    \/ \E t \in Tickets : Enqueue(t)
    \/ \E l \in loops : LoopGit(l, TRUE)
    \/ \E l \in loops : CreateStep(l)
    \/ \E l \in loops, c \in HalfChunks : ProcOutput(l, c)
    \/ \E l \in loops, c \in ErrChunks : ProcErrOutput(l, c)
    \/ \E p \in 1..Len(procs) : ProcCloseOut(p)
    \/ \E p \in 1..Len(procs) : ProcCloseErr(p)
    \/ \E p \in 1..Len(procs) : ProcExit(p)
    \/ \E l \in loops : StdoutDone(l)
    \/ \E l \in loops : StreamEnd(l)
    \/ \E l \in loops : ExitedDone(l)
    \/ \E l \in loops : DelayDone(l)
    \/ \E l \in loops : UnlockDone(l)
    \/ \E l \in loops : FailStep(l)

SpecExchange == Init /\ [][ExchangeNext]_vars

\* DELETE /tickets/:id
DeleteTicket(t) == Commit(deleteTicket(State, t))

\* the process of a git command that a job waits for runs
GitReturns == \E l \in loops, ok \in BOOLEAN : LoopGit(l, ok)

\* a step of the orchestrator itself: the completion of a git command that
\* has run is delivered, the delay is over, a stream that the worker closed
\* reaches its end, or the exit of a worker that is gone is seen
OrchestratorStep ==
    \E l \in loops :
        \/ CreateStep(l)
        \/ StdoutDone(l)
        \/ StreamEnd(l)
        \/ ExitedDone(l)
        \/ DelayDone(l)
        \/ UnlockDone(l)
        \/ FailStep(l)

\* The queue and its drain while tickets are deleted (a ticket that is gone
\* can be deleted again) and messages are posted to the first ticket, deleted
\* or not, when git succeeds and a worker writes nothing but the completion
\* sentinel
DrainNext ==
    \/ \E t \in Tickets : Enqueue(t)
    \/ \E t \in Tickets : Dequeue(t)
    \/ \E t \in Tickets : DeleteTicket(t)
    \/ \E sender \in SenderTypes : PostMessage(1, sender)
    \/ \E l \in loops : LoopGit(l, TRUE)
    \/ \E l \in loops : CreateStep(l)
    \/ \E l \in loops : ProcOutput(l, TASK_COMPLETE)
    \/ \E p \in 1..Len(procs) : ProcExit(p)
    \/ \E l \in loops : StdoutDone(l)
    \/ \E l \in loops : StreamEnd(l)
    \/ \E l \in loops : ExitedDone(l)
    \/ \E l \in loops : DelayDone(l)
    \/ \E l \in loops : UnlockDone(l)
    \/ \E l \in loops : FailStep(l)

\* every worker exits after some time, every git command returns and the
\* orchestrator's own steps are taken when they can be: the processing of
\* every started job returns
SpecDrain ==
    /\ Init /\ [][DrainNext]_vars
    /\ WF_vars(OrchestratorStep)
    /\ WF_vars(GitReturns)
    /\ WF_vars(\E p \in 1..Len(procs) : ProcExit(p))

\* The continuation loop of the jobs of one ticket, started one after the
\* other, when creating the worktree may fail, the worktree may be removed
\* under a running job (the spawn of the next iteration then raises), a
\* worker writes the completion sentinel or nothing, and the ticket's column
\* is written through PATCH /tickets/:id and POST /tickets/:id/move
LoopNext ==
    \/ Enqueue(1)
    \/ \E c \in MoveColumns : MoveTicket(1, c)
    \/ \E c \in MoveColumns \cup {Undefined} : PatchTicket(1, c)
    \/ \E l \in loops, ok \in BOOLEAN : LoopGit(l, ok)
    \/ \E l \in loops : CreateStep(l)
    \/ \E l \in loops : ProcOutput(l, TASK_COMPLETE)
    \/ \E p \in 1..Len(procs) : ProcExit(p)
    \/ \E l \in loops : StdoutDone(l)
    \/ \E l \in loops : StreamEnd(l)
    \/ \E l \in loops : ExitedDone(l)
    \/ \E l \in loops : DelayDone(l)
    \/ \E l \in loops : UnlockDone(l)
    \/ \E l \in loops : FailStep(l)
    \/ RemoveWorktree(1, TRUE)
    \/ \E i \in 1..MaxPendingRemovals, ok \in BOOLEAN : RemoveGit(i, ok, TRUE)
    \/ \E i \in 1..MaxPendingRemovals : RemoveStep(i)

\* every worker exchange terminates (the worker exits, which ends its
\* streams) and the orchestrator's own steps are taken; whether a git
\* command returns is up to git: worktree.ts sets no timeout for it
SpecLoop ==
    /\ Init /\ [][LoopNext]_vars
    /\ WF_vars(OrchestratorStep)
    /\ WF_vars(\E p \in 1..Len(procs) : ProcExit(p))

\* SpecLoop where every git command that a job waits for returns
SpecLoopGit == SpecLoop /\ WF_vars(GitReturns)

\* jobs (agent rows) that may be created when the queue is looked at alone
MaxQueueJobs == 3

RoomInQueue == Len(agents) + Len(queue) < MaxQueueJobs

\* POST /agents/start/:ticketId
QueueEnqueue(t) ==
    /\ t \notin deleted
    /\ RoomInQueue
    /\ Commit(startRoute(State, t))

\* Enqueue, dequeue and the drain with the jobs it starts; more jobs than in
\* Spec, so that two tickets wait in the queue behind a running job
QueueNext ==
    \/ \E t \in Tickets : QueueEnqueue(t)
    \/ \E t \in Tickets : Dequeue(t)
    \/ \E l \in loops, ok \in BOOLEAN : LoopGit(l, ok)
    \/ \E l \in loops : CreateStep(l)
    \/ \E l \in loops, c \in Chunks : ProcOutput(l, c)
    \/ \E p \in 1..Len(procs) : ProcExit(p)
    \/ \E l \in loops : StdoutDone(l)
    \/ \E l \in loops : StreamEnd(l)
    \/ \E l \in loops : ExitedDone(l)
    \/ \E l \in loops : DelayDone(l)
    \/ \E l \in loops : UnlockDone(l)
    \/ \E l \in loops : FailStep(l)

SpecQueue == Init /\ [][QueueNext]_vars

\* SpecQueue where the orchestrator's own steps are taken when they can be
\* and every git command returns; whether and when a worker exits is up to
\* the worker
SpecQueueFair ==
    SpecQueue /\ WF_vars(OrchestratorStep) /\ WF_vars(GitReturns)

\* The jobs and the worktree removal route, whose git commands run while
\* those of the jobs do; a git command of either may fail for a reason of
\* its own, and the working tree may be clean or not when it is removed
WorktreeNext ==
    \/ \E t \in Tickets : Enqueue(t)
    \/ \E t \in Tickets : Dequeue(t)
    \/ \E l \in loops, ok \in BOOLEAN : LoopGit(l, ok)
    \/ \E l \in loops : CreateStep(l)
    \/ \E l \in loops, c \in Sentinels : ProcOutput(l, c)
    \/ \E p \in 1..Len(procs) : ProcExit(p)
    \/ \E l \in loops : StdoutDone(l)
    \/ \E l \in loops : StreamEnd(l)
    \/ \E l \in loops : ExitedDone(l)
    \/ \E l \in loops : DelayDone(l)
    \/ \E l \in loops : UnlockDone(l)
    \/ \E l \in loops : FailStep(l)
    \/ \E t \in Tickets, force \in BOOLEAN : RemoveWorktree(t, force)
    \/ \E i \in 1..MaxPendingRemovals, ok, clean \in BOOLEAN : RemoveGit(i, ok, clean)
    \/ \E i \in 1..MaxPendingRemovals : RemoveStep(i)

SpecWorktree == Init /\ [][WorktreeNext]_vars

----------------------------------------------------------------------------
(* Terminal actions *)

MaySpawn == Len(tprocs) < MaxTermProcs

\* websocket.open of a terminal connection (index.ts)
WsOpen(c, t) ==
    /\ sockets[c].state = "new"
    /\ MaySpawn
    /\ LET s == [TState EXCEPT !.sockets[c].state = "open",
                               !.sockets[c].ticketId = t]
       IN  TCommit(startTerminalSession(addClientToSession(s, t, c), t))
    /\ UNCHANGED orchVars

\* the connection of a terminal websocket breaks; sends to it raise from now on
SocketLost(c) ==
    /\ sockets[c].state = "open"
    /\ sockets' = [sockets EXCEPT ![c].state = "lost"]
    /\ UNCHANGED <<orchVars, sessions, tprocs>>

\* websocket.close of a terminal connection (index.ts)
WsClose(c) ==
    /\ sockets[c].state \in {"open", "lost"}
    /\ TCommit(removeClientFromSession(
            [TState EXCEPT !.sockets[c].state = "closed"],
            sockets[c].ticketId, c))
    /\ UNCHANGED orchVars

\* POST /chat/:ticketId: the message is stored, the terminal session is
\* started if it has no process
Chat(t) ==
    /\ t \notin deleted
    /\ MaySpawn
    /\ Posted(messages) < MaxPosts
    /\ messages' = addHumanMessage(State, t, Posting).messages
    /\ TCommit(chatTerminal(TState, t))
    /\ UNCHANGED <<queue, currentJob, isProcessing, loops, kills, removals,
                   agents, column, events, worktrees, procs, jobLog, skipped,
                   errorReply, deleted>>

\* POST /agents/terminal/start/:ticketId
TerminalStart(t) ==
    /\ t \notin deleted
    /\ MaySpawn
    /\ TCommit(startTerminalSession(TState, t))
    /\ UNCHANGED orchVars

TerminalKill(t) ==
    /\ TCommit(killTerminalSession(TState, t))
    /\ UNCHANGED orchVars

\* the stdout relay loop of process p reads a chunk
StdoutRead(p, text) ==
    /\ p \in 1..Len(tprocs)
    /\ ~tprocs[p].eof
    /\ tprocs[p].reads < MaxChunks
    /\ LET t == tprocs[p].ticketId
           s == [TState EXCEPT !.tprocs[p].reads = @ + 1]
       IN  TCommit(broadcastToSession(bufferOutput(s, t, text), t, text))
    /\ UNCHANGED orchVars

\* the stdout relay loop of process p reads end of stream
StdoutEnd(p) ==
    /\ p \in 1..Len(tprocs)
    /\ ~tprocs[p].alive /\ ~tprocs[p].eof
    /\ tprocs' = [tprocs EXCEPT ![p].eof = TRUE]
    /\ UNCHANGED <<sessions, sockets, orchVars>>

\* the interactive worker process exits by itself
TermProcExit(p) ==
    /\ p \in 1..Len(tprocs)
    /\ tprocs[p].alive
    /\ tprocs' = [tprocs EXCEPT ![p].alive = FALSE]
    /\ UNCHANGED <<sessions, sockets, orchVars>>

\* proc.exited resolves for a dead process
ExitHandler(p) ==
    /\ p \in 1..Len(tprocs)
    /\ ~tprocs[p].alive /\ ~tprocs[p].exited
    /\ TCommit(exitHandler([TState EXCEPT !.tprocs[p].exited = TRUE],
                           tprocs[p].ticketId))
    /\ UNCHANGED orchVars

TermNext ==
    \/ \E c \in 1..NumSockets, t \in Tickets : WsOpen(c, t)
    \/ \E c \in 1..NumSockets : SocketLost(c)
    \/ \E c \in 1..NumSockets : WsClose(c)
    \/ \E t \in Tickets : TerminalStart(t)
    \/ \E t \in Tickets : TerminalKill(t)
    \/ \E p \in 1..Len(tprocs), text \in TermChunks : StdoutRead(p, text)
    \/ \E p \in 1..Len(tprocs) : StdoutEnd(p)
    \/ \E p \in 1..Len(tprocs) : TermProcExit(p)
    \/ \E p \in 1..Len(tprocs) : ExitHandler(p)

SpecTerm == Init /\ [][TermNext]_vars

\* interactive worker processes that may be spawned when the relay is looked at
MaxRelayProcs == 2

MayRelay == Len(tprocs) < MaxRelayProcs

\* websocket.open of a terminal connection (index.ts)
RelayOpen(c, t) == MayRelay /\ WsOpen(c, t)

\* POST /agents/terminal/start/:ticketId
RelayStart(t) == MayRelay /\ TerminalStart(t)

\* POST /chat/:ticketId
RelayChat(t) == MayRelay /\ Chat(t)

\* the stderr relay loop of process p reads a chunk
StderrRead(p, text) ==
    /\ p \in 1..Len(tprocs)
    /\ tprocs[p].errReads < MaxChunks
    /\ TCommit([TState EXCEPT !.tprocs[p].errReads = @ + 1])
    /\ UNCHANGED orchVars

\* The terminal sessions with both relay loops of every process, for fewer
\* processes than in SpecTerm
RelayNext ==
    \/ \E c \in 1..NumSockets, t \in Tickets : RelayOpen(c, t)
    \/ \E c \in 1..NumSockets : SocketLost(c)
    \/ \E c \in 1..NumSockets : WsClose(c)
    \/ \E t \in Tickets : RelayStart(t)
    \/ \E t \in Tickets : RelayChat(t)
    \/ \E t \in Tickets : TerminalKill(t)
    \/ \E p \in 1..Len(tprocs), text \in TermChunks : StdoutRead(p, text)
    \/ \E p \in 1..Len(tprocs), text \in TermChunks : StderrRead(p, text)
    \/ \E p \in 1..Len(tprocs) : StdoutEnd(p)
    \/ \E p \in 1..Len(tprocs) : TermProcExit(p)
    \/ \E p \in 1..Len(tprocs) : ExitHandler(p)

SpecRelay == Init /\ [][RelayNext]_vars

----------------------------------------------------------------------------
(* Properties *)

AgentIds == 1..Len(agents)

\* the job blocked and no human response or kill has been accepted for it
AwaitsResponse(a) ==
    jobLog[a].blocked /\ jobLog[a].resumed = "no" /\ ~jobLog[a].killed

AliveProcs == {p \in 1..Len(procs) : procs[p].alive}

ProcsOf(a) == {p \in 1..Len(procs) : procs[p].agentId = a}

KillPending(a) == \E i \in 1..Len(kills) : kills[i].agentId = a

LoopOf(a) == {l \in loops : l.agentId = a}

\* a is the newest job of its ticket
LatestJob(a) ==
    \A b \in AgentIds : agents[b].ticketId = agents[a].ticketId => b <= a

\* the step that persists `status` for a job puts the job's ticket into the
\* column `col`
MovesTicket(status, col) ==
    \A a \in 1..Len(agents') :
        (/\ agents'[a].status = status
         /\ a > Len(agents) \/ agents[a].status # status) =>
            column'[agents'[a].ticketId] = col

\* C1: the ticket whose job is being processed is never in the queue, so
\* enqueue(T) while T is processed does not add T.
C1_ProcessingNotQueued ==
    \A l \in loops : ~InQueue(queue, l.ticketId)

\* C2: single-worker discipline.  At most one startAgent invocation (one
\* continuation loop) is in progress, every live worker process is the one
\* that loop is reading, and every job other than the one in progress has
\* ended: its persisted status is completed, failed or blocked.
C2_SingleWorker ==
    /\ Cardinality(loops) <= 1
    /\ Cardinality(AliveProcs) <= 1
    /\ \A p \in AliveProcs :
          \E l \in loops : l.pc \in {"stream", "exited"} /\ l.proc = p
    /\ \A a \in AgentIds :
          LoopOf(a) = {} =>
              agents[a].status \in {"COMPLETED", "FAILED", "BLOCKED"}

\* C3: at most one interactive worker process is alive per ticket, whatever
\* the order of starts, kills and process exits.
C3_OneProcessPerTicket ==
    \A t \in Tickets :
        Cardinality({p \in 1..Len(tprocs) :
                        tprocs[p].ticketId = t /\ tprocs[p].alive}) <= 1

\* C4: a job that blocked and was neither resumed nor killed is still the
\* orchestrator's current job, so that resumeAgent for its ticket is accepted.
C4_BlockedJobKept ==
    \A a \in AgentIds :
        AwaitsResponse(a) => ~resumeAgentThrows(State, agents[a].ticketId)

\* C5: the job started for a ticket whose blocked job was resumed runs at
\* least one iteration, in the workspace that was there: when its processing
\* has ended it has counted an iteration, and until then the workspace stays.
C5_ResumeReentersLoop ==
    \A b \in AgentIds :
        jobLog[b].viaResume =>
            /\ LoopOf(b) = {} => agents[b].iterationCount >= 1
            /\ agents[b].iterationCount = 0 => worktrees[agents[b].ticketId].dir

\* C6: once killAgent was accepted for a job whose loop was in an exchange
\* or in the delay between iterations, the loop spawns no further worker, and
\* when the kill's cleanup has finished no worker of the job runs.
C6_KilledLoopStops ==
    [][\A a \in AgentIds :
          (jobLog[a].killed /\ jobLog[a].killedAt \in {"stream", "delay"}) =>
              /\ ProcsOf(a)' = ProcsOf(a)
              /\ ~KillPending(a)' =>
                    \A p \in ProcsOf(a)' : ~procs'[p].alive]_vars

\* C7: a killed job is never marked completed or blocked afterwards; the
\* step that marks a job failed puts its ticket into the blocked column; and
\* once the kill and the loop of a killed job are through, the job is failed
\* and, for as long as it is the newest job of its ticket, the workspace is
\* gone.
C7_KilledJobFailed ==
    /\ [](\A a \in AgentIds :
            jobLog[a].killed =>
                /\ agents[a].status \notin {"COMPLETED", "BLOCKED"}
                /\ (~KillPending(a) /\ LoopOf(a) = {} /\ LatestJob(a)) =>
                      /\ agents[a].status = "FAILED"
                      /\ ~worktrees[agents[a].ticketId].dir)
    /\ [][MovesTicket("FAILED", "blocked")]_vars

\* C8: resumeAgent is accepted only for a current job that is blocked: no job
\* is ever resumed while it is starting or running.
C8_ResumeOnlyBlocked ==
    \A a \in AgentIds : jobLog[a].resumed # "active"

\* C9: resumeAgent(T, response) on T's blocked job appends the response as a
\* human message, drops the job from currentJob and re-enqueues T, and a new
\* job for T (next agentId, iteration counter 0 in the job and in its row)
\* is what the drain then starts, T not being left in the queue; the new job
\* begins processing T: it goes on to the creation of its workspace and is
\* not failed in the step that starts it.
C9_ResumeStartsNewJob ==
    [][\A a \in AgentIds :
          (jobLog[a].resumed = "no" /\ jobLog'[a].resumed = "blocked") =>
              LET t == agents[a].ticketId
                  n == Len(agents) + 1
                  m == Len(messages[t]) + 1
              IN  /\ currentJob.agentId = a
                  /\ Len(messages'[t]) >= m
                  /\ SubSeq(messages'[t], 1, m - 1) = messages[t]
                  /\ messages'[t][m].senderType = "human"
                  /\ \E r \in Responses : messages'[t][m].content = <<r>>
                  /\ Len(agents') = n
                  /\ agents'[n].ticketId = t
                  /\ agents'[n].iterationCount = 0
                  /\ currentJob'.agentId = n
                  /\ currentJob'.ticketId = t
                  /\ currentJob'.iterations = 0
                  /\ \E l \in loops' : l.agentId = n /\ l.pc = "create"
                  /\ agents'[n].status = "STARTING"
                  /\ ~InQueue(queue', t)
                  /\ CopiesIn([type |-> "agent.started", ticketId |-> t,
                               agentId |-> n], events') = 1]_vars

\* C10: the step that marks a job blocked puts its ticket into the blocked
\* column, and a job blocked by the need-input sentinel, for as long as no
\* response or kill was accepted for it, is persisted as blocked, the text
\* after the sentinel is an agent message of the ticket, the blocked event
\* was emitted once, and its workspace is present and locked.
C10_BlockedKeepsWorkspace ==
    /\ [](\A a \in AgentIds :
            (AwaitsResponse(a) /\ jobLog[a].question # MaxIterationsQuestion) =>
                LET t == agents[a].ticketId
                IN  /\ agents[a].status = "BLOCKED"
                    /\ currentJob.agentId = a =>
                          jobLog[a].question =
                                extractQuestion(currentJob.lastOutput)
                    /\ \E i \in 1..Len(messages[t]) :
                          messages[t][i] = [senderType |-> "agent",
                                            content |-> jobLog[a].question]
                    /\ CopiesIn([type |-> "agent.blocked", ticketId |-> t,
                                 agentId |-> a], events) = 1
                    /\ worktrees[t].dir /\ worktrees[t].locked)
    /\ [][MovesTicket("BLOCKED", "blocked")]_vars

\* the job's own history has no kill and no resume while it was active
Undisturbed(a) == ~jobLog[a].killed /\ jobLog[a].resumed # "active"

\* events of one type emitted for a job
Emitted(type, a) ==
    CopiesIn([type |-> type, ticketId |-> agents[a].ticketId, agentId |-> a],
             events)

\* C11: when the output of an iteration of a job (not killed, not resumed
\* while active) contains the completion sentinel, the job is marked
\* completed and its ticket moves to the review column; when the completion
\* has finished the completed event was emitted once, the workspace is
\* unlocked and still there, and the job is no longer the current job.
C11_SentinelCompletes ==
    /\ [](\A a \in AgentIds :
            (Undisturbed(a) /\ jobLog[a].sentinel = "complete") =>
                /\ agents[a].status = "COMPLETED"
                /\ LoopOf(a) = {} =>
                      /\ Emitted("agent.completed", a) = 1
                      /\ currentJob.agentId # a
                      /\ LatestJob(a) =>
                            /\ worktrees[agents[a].ticketId].dir
                            /\ ~worktrees[agents[a].ticketId].locked)
    /\ [][MovesTicket("COMPLETED", "review")]_vars

\* a message of the ticket with this sender whose content starts with `first`
HasMessage(t, senderType, first) ==
    \E i \in 1..Len(messages[t]) :
        /\ messages[t][i].senderType = senderType
        /\ messages[t][i].content # <<>>
        /\ Head(messages[t][i].content) = first

\* a job whose workspace creation failed is failed, the error is a system
\* message of its ticket, and it never ran an iteration or spawned a worker
CreateFailureFails(a) ==
    /\ agents[a].status = "FAILED"
    /\ agents[a].iterationCount = 0
    /\ ProcsOf(a) = {}
    /\ HasMessage(agents[a].ticketId, "system", "Agent failed:")

\* the step in which the creation of a job's workspace fails puts the job's
\* ticket into the blocked column
CreateFailureBlocks ==
    \A a \in 1..Len(agents') :
        (/\ jobLog'[a].createError # ""
         /\ a > Len(agents) \/ jobLog[a].createError = "") =>
            column'[agents'[a].ticketId] = "blocked"

C13_BudgetThenBlocked ==
    \A a \in AgentIds :
        /\ agents[a].iterationCount <= maxIterations
        /\ Cardinality(ProcsOf(a)) <= maxIterations
        /\ (/\ Undisturbed(a)
            /\ jobLog[a].sentinel = ""
            /\ jobLog[a].createError = ""
            /\ LoopOf(a) = {}) =>
                /\ agents[a].status = "BLOCKED"
                /\ agents[a].iterationCount = maxIterations
                /\ jobLog[a].question = MaxIterationsQuestion
                /\ \E i \in 1..Len(messages[agents[a].ticketId]) :
                      messages[agents[a].ticketId][i] =
                          [senderType |-> "agent",
                           content |-> MaxIterationsQuestion]

\* C14: when the processing of a failed job has ended and no kill cleanup is
\* pending for it, then, for as long as it is the newest job of its ticket,
\* nothing of the ticket's workspace is left: no directory, no registered
\* worktree, no lock, no ticket branch.
C14_FailedLeavesNothing ==
    \A a \in AgentIds :
        (/\ agents[a].status = "FAILED"
         /\ LoopOf(a) = {}
         /\ ~KillPending(a)
         /\ LatestJob(a)) =>
            worktrees[agents[a].ticketId] = NoWorktree

\* C15: when create() has thrown after `git worktree add` succeeded (the
\* lock or the reading of HEAD failed) and startAgent is handling the error,
\* nothing of the partial worktree is left: no directory, no registered
\* worktree, no lock, no ticket branch.
C15_CreateCleansUp ==
    \A l \in loops :
        (l.pc = "fail" /\ jobLog[l.agentId].createError \in {"lock", "head"}) =>
            worktrees[l.ticketId] = NoWorktree

\* C16: a directory of a ticket is always a worktree that create() made
\* (registered, on the ticket branch), and a job that starts while its
\* ticket has one gets the already-exists error from create() at once, with
\* that worktree left as it was (but for the lock, which the completion of
\* the previous job may release in the same step); create() goes on to git
\* only when there is none.
C16_OneWorkspacePerTicket ==
    [][/\ \A t \in Tickets :
            worktrees'[t].dir =>
                worktrees'[t].registered /\ worktrees'[t].branch
       /\ Len(agents') = Len(agents) + 1 =>
            LET n == Len(agents')
                t == agents'[n].ticketId
            IN  IF worktrees'[t].dir
                THEN /\ jobLog'[n].createError = "exists"
                     /\ \E l \in loops' : l.agentId = n /\ l.pc = "fail"
                     /\ worktrees[t].dir =>
                            worktrees'[t] = [worktrees[t] EXCEPT
                                !.locked = worktrees'[t].locked]
                ELSE /\ jobLog'[n].createError = ""
                     /\ \E l \in loops' : l.agentId = n /\ l.pc = "create"]_vars

\* C16 witness: create() has thrown already-exists for a job and the
\* workspace made for an earlier job of the ticket is still in place.
C16_Witness ==
    \E l \in loops :
        /\ l.pc = "fail"
        /\ jobLog[l.agentId].createError = "exists"
        /\ worktrees[l.ticketId].dir
        /\ worktrees[l.ticketId].registered

\* C17: removal without force of a workspace that is locked leaves the
\* workspace as it is: in place and locked.
C17_LockedSurvivesRemove ==
    [][\A i \in 1..Len(removals), ok, clean \in BOOLEAN :
          (/\ ~removals[i].force
           /\ worktrees[removals[i].ticketId].dir
           /\ worktrees[removals[i].ticketId].locked
           /\ RemoveGit(i, ok, clean)) =>
              worktrees'[removals[i].ticketId] =
                    worktrees[removals[i].ticketId]]_vars

\* C18: when the loop spawns a worker the ticket's workspace is there and
\* locked, and no step of the orchestrator taken while that worker runs
\* changes the workspace.
C18_WorkerOwnsWorkspace ==
    [][/\ Len(procs') > Len(procs) =>
            LET t == procs'[Len(procs')].ticketId
            IN  worktrees'[t].dir /\ worktrees'[t].locked
       /\ \A p \in AliveProcs :
            procs'[p].alive =>
                worktrees'[procs[p].ticketId] = worktrees[procs[p].ticketId]]_vars

\* position of a ticket in a queue that holds it
PositionIn(q, t) == CHOOSE i \in 1..Len(q) : q[i] = t

\* C19: no ticket is in the queue twice, and enqueue(T) while T is in the
\* queue leaves the queue (and everything else of the orchestrator) as it is.
C19_QueueHasNoDuplicates ==
    /\ \A i, j \in 1..Len(queue) : queue[i] = queue[j] => i = j
    /\ \A t \in Tickets :
          InQueue(queue, t) =>
              enqueue(State, t) = [State EXCEPT !.skipped = @ \cup {t}]

\* C19 witness: two tickets wait in the queue and an enqueue of one of them
\* was skipped.
C19_Witness ==
    /\ Len(queue) = 2
    /\ \E t \in skipped : InQueue(queue, t)

\* C20: the queue keeps the order of the enqueues (a ticket that enters is
\* put behind all the others, tickets that stay keep their order) and the
\* drain starts the ticket at the head, so a ticket enqueued earlier and not
\* dequeued is started first.
C20_StartsInEnqueueOrder ==
    [][/\ \A a, b \in Tickets :
            (/\ InQueue(queue', a) /\ InQueue(queue', b)
             /\ InQueue(queue, a)
             /\ ~InQueue(queue, b) \/ PositionIn(queue, a) < PositionIn(queue, b)
             /\ a # b) =>
                PositionIn(queue', a) < PositionIn(queue', b)
       /\ Len(agents') = Len(agents) + 1 =>
            LET t == agents'[Len(agents')].ticketId
            IN  /\ queue # <<>> => (t = Head(queue) /\ queue' = Tail(queue))
                /\ queue = <<>> => queue' = <<>>]_vars

\* C20 witness: the second job was started for the ticket at the head of the
\* queue while the ticket enqueued after it still waits.
C20_Witness ==
    /\ Len(agents) = 2
    /\ Len(queue) = 1
    /\ agents[2].ticketId # queue[1]
    /\ LoopOf(2) # {}

\* the orchestrator's state apart from the reply of the route
Orchestrator(s) == [s EXCEPT !.errorReply = NoReply]

\* C21: whenever there is no current job, or the current job is for another
\* ticket, the resume route and the kill route answer with status 400 and
\* leave the whole state of the orchestrator (queue, current job, workspaces,
\* messages and the rest) as it was; and a step that answers with an error
\* changes nothing else.
C21_RejectedCallChangesNothing ==
    /\ [](\A t \in Tickets :
            (currentJob = NoJob \/ currentJob.ticketId # t) =>
                /\ \A r \in Responses :
                      LET s == resumeRoute(State, t, r)
                      IN  /\ s.errorReply =
                                [op |-> "resume", ticketId |-> t, status |-> 400]
                          /\ Orchestrator(s) = State
                /\ LET s == killRoute(State, t)
                   IN  /\ s.errorReply =
                                [op |-> "kill", ticketId |-> t, status |-> 400]
                       /\ Orchestrator(s) = State)
    /\ [][(errorReply' # errorReply /\ errorReply' # NoReply) =>
            /\ errorReply'.status = 400
            /\ currentJob = NoJob \/ currentJob.ticketId # errorReply'.ticketId
            /\ UNCHANGED <<queue, currentJob, isProcessing, loops, kills,
                           agents, column, messages, events, worktrees,
                           procs, jobLog>>]_vars

\* C21 witness: a resume for a ticket was rejected while the current job, an
\* agent waiting for a response, belongs to the other ticket.
C21_Witness ==
    /\ errorReply.op = "resume"
    /\ currentJob # NoJob
    /\ currentJob.ticketId # errorReply.ticketId
    /\ AwaitsResponse(currentJob.agentId)

\* C22: when a ticket whose newest job has ended completed or failed is
\* enqueued (nothing is being processed, so the enqueue starts the job at
\* once), the new job has a fresh id, no iterations, and enters the
\* continuation loop by way of the creation of its workspace.
C22_ReenqueueStartsJob ==
    [][\A b \in AgentIds :
          (/\ ~isProcessing /\ queue = <<>>
           /\ LatestJob(b)
           /\ agents[b].status \in {"COMPLETED", "FAILED"}
           /\ Len(agents') = Len(agents) + 1
           /\ agents'[Len(agents')].ticketId = agents[b].ticketId) =>
              LET a == Len(agents')
              IN  /\ agents'[a].status = "STARTING"
                  /\ agents'[a].iterationCount = 0
                  /\ jobLog'[a].createError = ""
                  /\ \E l \in loops' : l.agentId = a /\ l.pc = "create"]_vars

\* the job exists and its row says it is running
IsRunning(a) ==
    IF a \in AgentIds THEN agents[a].status = "RUNNING" ELSE FALSE

\* C23: a worker that was spawned is gone after some time whether or not it
\* exits by itself, and so a job that is running leaves the running state.
C23_HangingWorkerIsTerminated ==
    \A a \in 1..MaxQueueJobs :
        /\ (a \in AliveProcs) ~> (a \notin AliveProcs)
        /\ IsRunning(a) ~> ~IsRunning(a)

TermProcIds == 1..Len(tprocs)

\* the last maxBufferLines entries of a sequence of entries
LastEntries(entries) ==
    IF Len(entries) <= maxBufferLines THEN entries
    ELSE SubSeq(entries, Len(entries) - maxBufferLines + 1, Len(entries))

\* everything a relay loop or an exit handler sends
Broadcasts == TermChunks \cup {exitMessage}

\* C24: a buffer never holds more than maxBufferLines entries, and every
\* append (of the pieces of a chunk, or of the notice) leaves the most recent
\* maxBufferLines entries of the old buffer followed by the new entries, in
\* order; so after any number of appends the buffer is the most recent
\* maxBufferLines entries of all that was appended.
C24_BufferKeepsMostRecent ==
    /\ [](\A t \in DOMAIN sessions :
            Len(sessions[t].outputBuffer) <= maxBufferLines)
    /\ [][\A p \in TermProcIds :
            LET t == tprocs[p].ticketId
                buffer == sessions[t].outputBuffer
            IN  /\ \A text \in TermChunks :
                      StdoutRead(p, text) =>
                          sessions'[t].outputBuffer =
                              LastEntries(buffer \o split(text))
                /\ ExitHandler(p) =>
                      sessions'[t].outputBuffer =
                          LastEntries(buffer \o split(exitMessage))]_vars

\* C24 witness: a process of the session had a chunk relayed and the buffer,
\* which is full, holds nothing but the notice: the chunk was evicted.
C24_Witness ==
    \E t \in DOMAIN sessions :
        /\ sessions[t].outputBuffer = split(exitMessage)
        /\ Len(sessions[t].outputBuffer) = maxBufferLines
        /\ \E p \in TermProcIds : tprocs[p].ticketId = t /\ tprocs[p].reads > 0

\* C25: a connection that attaches is sent the joined buffer (nothing when the
\* buffer is empty) and becomes an observer; while it is attached it is sent
\* every chunk relayed and every notice of its session once, after what it
\* had received, and nothing else.
C25_ReplayThenBroadcasts ==
    [][\A c \in 1..NumSockets :
          /\ (sockets[c].state = "new" /\ sockets'[c].state = "open") =>
                LET t == sockets'[c].ticketId
                    buffer == IF t \in DOMAIN sessions
                              THEN sessions[t].outputBuffer ELSE <<>>
                IN  /\ c \in sessions'[t].clients
                    /\ sockets'[c].received =
                          IF buffer = <<>> THEN <<>> ELSE <<join(buffer)>>
          /\ (sockets[c].state = "open" /\ sockets'[c].state = "open") =>
                LET t == sockets[c].ticketId
                    mine == {p \in TermProcIds : tprocs[p].ticketId = t}
                    received == sockets[c].received
                IN  /\ c \in sessions'[t].clients
                    /\ \A p \in mine :
                          /\ \A text \in TermChunks :
                                StdoutRead(p, text) =>
                                    sockets'[c].received = Append(received, text)
                          /\ ExitHandler(p) =>
                                sockets'[c].received =
                                    Append(received, exitMessage)
                    /\ sockets'[c].received # received =>
                          \E p \in mine :
                              \/ \E text \in TermChunks : StdoutRead(p, text)
                              \/ ExitHandler(p)]_vars

\* C25 witness: an attached connection was sent a replay (a text that is no
\* chunk and no notice) and then at least one broadcast.
C25_Witness ==
    \E c \in 1..NumSockets :
        /\ sockets[c].state = "open"
        /\ Len(sockets[c].received) >= 2
        /\ sockets[c].received[1] \notin Broadcasts

\* C26: when the pieces of a relayed chunk fit in the buffer without an
\* eviction, the replay text (the joined buffer) grows by exactly that chunk;
\* so without evictions the replay is the concatenation of all chunks.
C26_ReplayIsOutputText ==
    [][\A p \in TermProcIds, text \in TermChunks :
          LET t == tprocs[p].ticketId
              buffer == sessions[t].outputBuffer
          IN  (/\ StdoutRead(p, text)
               /\ Len(buffer) + Len(split(text)) <= maxBufferLines) =>
                  join(sessions'[t].outputBuffer) = join(buffer) \o text]_vars

\* C27: the close of a connection takes it out of the observers of its
\* session and changes nothing else of any session or process, and a chunk
\* relayed for a session without observers is buffered all the same.
C27_DetachChangesObserversOnly ==
    [][/\ \A c \in 1..NumSockets :
            WsClose(c) =>
                LET t == sockets[c].ticketId
                IN  /\ sessions' = [sessions EXCEPT ![t].clients = @ \ {c}]
                    /\ tprocs' = tprocs
       /\ \A p \in TermProcIds, text \in TermChunks :
            LET t == tprocs[p].ticketId
            IN  (StdoutRead(p, text) /\ sessions[t].clients = {}) =>
                    sessions'[t].outputBuffer =
                        LastEntries(sessions[t].outputBuffer \o split(text))]_vars

\* C27 witness: a connection that was sent nothing is closed; its session is
\* running with its process handle and has buffered output since, which an
\* attach now would be sent.
C27_Witness ==
    \E c \in 1..NumSockets :
        /\ sockets[c].state = "closed"
        /\ sockets[c].received = <<>>
        /\ LET session == sessions[sockets[c].ticketId]
           IN  /\ session.status = "running"
               /\ session.process # 0
               /\ session.clients = {}
               /\ session.outputBuffer # <<>>
               /\ addClientToSession(TState, sockets[c].ticketId, c)
                        .sockets[c].received = <<join(session.outputBuffer)>>

\* C28: a chunk read from the output stream or from the error stream of an
\* interactive process is appended to the buffer of its session and sent, as
\* it is, to every observer.
C28_BothStreamsRelayed ==
    [][\A p \in TermProcIds, text \in TermChunks :
          LET t == tprocs[p].ticketId
          IN  (StdoutRead(p, text) \/ StderrRead(p, text)) =>
                  /\ sessions'[t].outputBuffer =
                        LastEntries(sessions[t].outputBuffer \o split(text))
                  /\ \A c \in sessions[t].clients :
                        sockets'[c].received =
                            Append(sockets[c].received, text)]_vars

\* C29: killTerminalSession on a running session leaves it stopped, without
\* a handle, its process dead; applied to the result, to a stopped session or
\* to a ticket without a session it changes nothing.
C29_KillIsIdempotent ==
    \A t \in Tickets :
        LET s1 == killTerminalSession(TState, t)
        IN  /\ (t \in DOMAIN sessions /\ sessions[t].status = "running") =>
                  /\ sessions[t].process # 0
                  /\ ~s1.tprocs[sessions[t].process].alive
                  /\ s1.sessions[t].process = 0
                  /\ s1.sessions[t].status = "stopped"
            /\ killTerminalSession(s1, t) = s1
            /\ (t \notin DOMAIN sessions \/ sessions[t].status = "stopped") =>
                  s1 = TState

\* C29 witness: the only process of a session is dead, its exit has not been
\* handled, and the session is stopped without a handle: it was killed.
C29_Witness ==
    \E t \in DOMAIN sessions :
        /\ sessions[t].status = "stopped"
        /\ sessions[t].process = 0
        /\ \E p \in TermProcIds :
              /\ tprocs[p].ticketId = t
              /\ ~tprocs[p].alive /\ ~tprocs[p].exited
              /\ \A q \in TermProcIds : tprocs[q].ticketId = t => q = p

\* the observers of a session to which a send goes through
Reachable(t) == {c \in sessions[t].clients : ~sendThrows(TState, c)}

\* C30: the exit handler of a process leaves its session in place, stopped
\* and without a handle, the notice appended to the buffer, and the notice
\* sent once to every observer whose connection stands and to nobody else;
\* these observers stay, an observer to which the send raises is dropped.
C30_ExitStopsAndNotifies ==
    [][\A p \in TermProcIds :
          ExitHandler(p) =>
              LET t == tprocs[p].ticketId
              IN  /\ DOMAIN sessions' = DOMAIN sessions
                  /\ sessions'[t].status = "stopped"
                  /\ sessions'[t].process = 0
                  /\ sessions'[t].clients = Reachable(t)
                  /\ sessions'[t].outputBuffer =
                        LastEntries(sessions[t].outputBuffer
                                        \o split(exitMessage))
                  /\ \A c \in 1..NumSockets :
                        sockets'[c] =
                            IF c \in Reachable(t)
                            THEN [sockets[c] EXCEPT
                                    !.received = Append(@, exitMessage)]
                            ELSE sockets[c]]_vars

\* C30 as it was stated: the exit handler leaves the session in place,
\* stopped and without a handle, with the notice appended to its buffer and
\* with all the observers it had, each of which is sent the notice.
C30_ObserversRetained ==
    [][\A p \in TermProcIds :
          ExitHandler(p) =>
              LET t == tprocs[p].ticketId
              IN  /\ DOMAIN sessions' = DOMAIN sessions
                  /\ sessions'[t].status = "stopped"
                  /\ sessions'[t].process = 0
                  /\ sessions'[t].clients = sessions[t].clients
                  /\ sessions'[t].outputBuffer =
                        LastEntries(sessions[t].outputBuffer
                                        \o split(exitMessage))
                  /\ \A c \in sessions[t].clients :
                        sockets'[c].received =
                            Append(sockets[c].received, exitMessage)]_vars

\* C30 witness: the exit of a process was handled while a connection was
\* attached: the session is stopped and the connection's last message is the
\* notice, which is also what the buffer ends with.
C30_Witness ==
    \E p \in TermProcIds, c \in 1..NumSockets :
        LET session == sessions[tprocs[p].ticketId]
        IN  /\ tprocs[p].exited
            /\ session.status = "stopped"
            /\ c \in session.clients
            /\ sockets[c].received # <<>>
            /\ sockets[c].received[Len(sockets[c].received)] = exitMessage
            /\ session.outputBuffer = split(exitMessage)

\* the system message of the catch inside the while loop
ErrorInIteration == [senderType |-> "system", content |-> <<"Error in iteration">>]

\* the newest message of the ticket is the error of an iteration
IterationErrored(t) ==
    messages[t] # <<>> /\ messages[t][Len(messages[t])] = ErrorInIteration

\* C31: for a job that was not killed and not resumed while active, the step
\* in which an iteration raises an error records it as a system message and
\* leaves the job running with its loop in the delay; when the delay after an
\* errored iteration is over the loop starts the next iteration, counted as
\* any other, or, with the budget used up, blocks the job with the
\* maximum-iterations question.  The job is never failed by it.
C31_IterationErrorContinues ==
    [][\A l \in loops :
          LET a == l.agentId
              t == l.ticketId
          IN  /\ (/\ Undisturbed(a)
                  /\ Len(messages'[t]) = Len(messages[t]) + 1
                  /\ messages'[t][Len(messages'[t])] = ErrorInIteration) =>
                      /\ agents'[a].status = "RUNNING"
                      /\ \E l2 \in loops' : l2.agentId = a /\ l2.pc = "delay"
              /\ (/\ Undisturbed(a)
                  /\ IterationErrored(t)
                  /\ DelayDone(l)) =>
                      IF l.iterations < maxIterations
                      THEN /\ agents'[a].status = "RUNNING"
                           /\ agents'[a].iterationCount = l.iterations + 1
                           /\ \E l2 \in loops' :
                                 /\ l2.agentId = a
                                 /\ l2.iterations = l.iterations + 1
                                 /\ l2.pc \in {"stream", "delay"}
                      ELSE /\ agents'[a].status = "BLOCKED"
                           /\ agents'[a].iterationCount = maxIterations
                           /\ jobLog'[a].question = MaxIterationsQuestion
                           /\ \A l2 \in loops' : l2.agentId # a]_vars

\* C32: the first worker of a job is given the task prompt and no resumption
\* token; every later worker of the job is given the short continuation
\* instruction and a resumption token.
C32_TaskPromptOnce ==
    \A p \in 1..Len(procs) :
        LET first == \A q \in ProcsOf(procs[p].agentId) : p <= q
        IN  IF first
            THEN procs[p].prompt = "task" /\ procs[p].resume = <<>>
            ELSE procs[p].prompt = "continue" /\ procs[p].resume # <<>>

\* what the text collected in an iteration says: the completion sentinel is
\* looked for first
Verdict(text) ==
    IF Matches(text, <<"TASK_", "COMPLETE">>) # {} THEN "COMPLETED"
    ELSE IF Matches(text, <<"NEED_HUMAN_", "INPUT:">>) # {} THEN "BLOCKED"
    ELSE "RUNNING"

\* C33: when the streams of an iteration have ended, the job is completed,
\* blocked or left running (the loop then waits for the worker's exit)
\* according to the whole text collected in the iteration, however the text
\* was cut into chunks.
C33_SentinelAcrossChunks ==
    [][\A l \in loops :
          (StreamEnd(l) /\ currentJob # NoJob) =>
              LET text == Text(streamOutput(l.fullOutput, l.stderr))
              IN  /\ agents'[l.agentId].status = Verdict(text)
                  /\ Verdict(text) = "RUNNING" =>
                        \E l2 \in loops' :
                            l2.agentId = l.agentId /\ l2.pc = "exited"]_vars

\* C33 witness: a job was completed on an output whose two chunks are the
\* halves of the completion sentinel.
C33_Witness ==
    \E l \in loops :
        /\ l.pc = "unlock"
        /\ l.fullOutput = <<"TASK_", "COMPLETE">>
        /\ agents[l.agentId].status = "COMPLETED"

\* C34: while the agent record of the current job says running or blocked,
\* the status of the current job in the snapshot of getStatus says the same
\* (the record is written in upper case).
C34_StatusFollowsLifecycle ==
    LET job == getStatus(State).currentJob
    IN  (job # NoJob /\ agents[job.agentId].status \in {"RUNNING", "BLOCKED"}) =>
            toUpperCase(job.status) = agents[job.agentId].status

\* C35: for every job the completed and failed events emitted number at most
\* one in total.
C35_OneTerminalOutcome ==
    \A a \in AgentIds :
        Emitted("agent.completed", a) + Emitted("agent.failed", a) <= 1

\* C36: every interactive process that is alive is the one its ticket's
\* session has as handle, and that session is running.
C36_LiveProcessIsHandle ==
    \A p \in TermProcIds :
        tprocs[p].alive =>
            /\ sessions[tprocs[p].ticketId].process = p
            /\ sessions[tprocs[p].ticketId].status = "running"

\* C37: a ticket that is in the queue leaves it after some time (it is
\* started, or found deleted, or dequeued), and isProcessing is set only
\* while a startAgent invocation is in progress: it is reset when startAgent
\* has returned or thrown.
C37_QueueDrains ==
    /\ [](isProcessing => loops # {})
    /\ \A t \in Tickets : InQueue(queue, t) ~> ~InQueue(queue, t)

\* C37 witness: startAgent threw for a deleted ticket, which was recorded, and
\* a job for another ticket is being processed.
C37_Witness ==
    \E t \in deleted :
        /\ HasMessage(t, "system", "Agent failed to start")
        /\ \E l \in loops : l.ticketId # t

\* the job exists and its row says it was started and has not ended
IsActive(a) ==
    IF a \in AgentIds THEN agents[a].status \in {"STARTING", "RUNNING"}
    ELSE FALSE

\* the job exists and its row says how it ended
IsEnded(a) ==
    IF a \in AgentIds
    THEN agents[a].status \in {"BLOCKED", "COMPLETED", "FAILED"}
    ELSE FALSE

\* C38: when every worker exchange terminates, a job that is starting or
\* running is blocked, completed or failed after some time, whatever its
\* workers wrote and whichever of its iterations raised an error.
C38_JobEnds ==
    \A a \in 1..MaxJobs : IsActive(a) ~> IsEnded(a)

\* C39: once the exit of an interactive process has been notified, no chunk
\* of that process's output is buffered or broadcast any more: the
\* session-ended notice is the last entry of its run.
C39_NoticeIsLast ==
    [][\A p \in TermProcIds, text \in TermChunks :
          StdoutRead(p, text) => ~tprocs[p].exited]_vars

====
